---------------------------- MODULE Spec2Model ----------------------------
(***************************************************************************)
(* A model of the LLM API gateway (llm-gateway): the Response Cache, the   *)
(* Rate Limiter, the Provider Registry, the provider clients' retry loop,  *)
(* the Metrics Collector and the Gateway Dispatcher's request handler.     *)
(*                                                                         *)
(* Time is a discrete clock `now` (one tick is one abstract time unit);    *)
(* byte strings are sequences of bytes; the cache capacity, which the code *)
(* computes as maxSizeMB * 1024 * 1024, is a byte count here.              *)
(***************************************************************************)
EXTENDS Integers, Sequences, FiniteSets, TLC

(***************************************************************************)
(* Bounds of the model.                                                    *)
(***************************************************************************)
\* the clock runs from 0 to MaxTime
MaxTime == 2
\* cfg.Cache.TTL, in ticks
TTL == 1
\* MemoryCache.maxSize, in bytes
MaxSize == 2
\* the longest value handed to Set in the cache specification
MaxValueLen == 3
\* Get calls made in the cache specification (hits + misses stay finite)
MaxLookups == 2
\* cfg.RateLimit.PerKey: Requests per Window (Window in ticks)
PerKeyRequests == 2
PerKeyWindow == 2
\* cfg.RateLimit.Global: Requests per Window (Window in ticks)
GlobalRequests == 3
GlobalWindow == 2
\* time.Hour, the retention of raw metrics records, in ticks
Hour == 2
\* cfg.RateLimit.PerKey.Requests in the gateway specification
GwPerKeyRequests == 1
\* the longest pause, in ticks, between two Allow calls of a schedule
MaxGap == 2
\* the largest ProviderConfig.MaxRetries of the provider-client specification
MaxRetriesCfg == 3
\* the largest token count an upstream reports in a usage field
MaxTokens == 2
\* the longest routing.fallbackChain of the registry specification
MaxChain == 3
\* the number of requests recorded in the collector specification
MaxRecords == 3
\* the most lines an upstream stream delivers in the relay specification
MaxLines == 3
\* the most accesses (successful Get, Set) logged in the eviction specification
MaxAccesses == 4
\* the most messages of a request in the translation specification
MaxMessages == 3

VARIABLES
    now,        \* time.Now()
    cache,      \* the MemoryCache: [items, lru, hits, misses]
    limiter,    \* the RateLimiter: [cfg, hasGlobal, global, limiters]
    streak,     \* history: per key, the Allow calls admitted in a row at this instant
    fpReqs,     \* two ChatCompletionRequests handed to generateCacheKey
    fpKeys,     \* the cache keys computed for them (<<>> before the call)
    input,      \* the arguments of the operation a single-operation specification applies
    output,     \* what the last operation applied returned (<<>> before any)
    cfg,        \* the gateway's configuration (config.Config)
    metrics,    \* the metrics.Collector
    healthy,    \* environment: the providers whose upstream answers 200 to every call
    reqs        \* the requests: per slot, the handler's position and what it did

vars == <<now, cache, limiter, streak, fpReqs, fpKeys, input, output, cfg, metrics,
          healthy, reqs>>

\* the variables of the gateway specification
gwVars == <<cfg, metrics, healthy, reqs>>

\* the variables of the cache-key specification
fpVars == <<fpReqs, fpKeys>>

\* the arguments and the result of the operation applied
opVars == <<input, output>>

(***************************************************************************)
(* Response Cache (internal/cache/cache.go)                                *)
(***************************************************************************)
\* a byte string of n bytes
Bytes(n) == [i \in 1..n |-> 1]

CacheKeys == {"ka", "kb", "kc"}
CacheValues == {Bytes(n) : n \in 1..MaxValueLen}

NewMemoryCache == [items |-> <<>>, lru |-> <<>>, hits |-> 0, misses |-> 0]

RECURSIVE SizeOver(_, _)
SizeOver(its, ks) ==
    IF ks = {} THEN 0
    ELSE LET k == CHOOSE x \in ks : TRUE
         IN  Len(its[k].value) + SizeOver(its, ks \ {k})

\* for _, item := range c.items { size += len(item.value) }
currentSize(c) == SizeOver(c.items, DOMAIN c.items)

\* container/list: Remove, MoveToFront, PushFront, Back on a list of keys
ListRemove(l, key) == SelectSeq(l, LAMBDA x : x # key)
MoveToFront(l, key) == <<key>> \o ListRemove(l, key)
PushFront(l, key) == <<key>> \o l

\* c.lru.Remove(item.element); delete(c.items, item.key)
removeItem(c, key) ==
    [c EXCEPT !.lru = ListRemove(c.lru, key),
              !.items = [k \in (DOMAIN c.items) \ {key} |-> c.items[k]]]

\* a variant of evictOldest that takes the key at the front of the LRU list
evictNewest(c) ==
    IF Len(c.lru) > 0 /\ c.lru[1] \in DOMAIN c.items
    THEN removeItem(c, c.lru[1])
    ELSE c

\* evict the key at the back of the LRU list, if it is in items
evictOldest(c) ==
    IF Len(c.lru) > 0 /\ c.lru[Len(c.lru)] \in DOMAIN c.items
    THEN removeItem(c, c.lru[Len(c.lru)])
    ELSE c

\* for c.currentSize()+len(value) > c.maxSize && c.lru.Len() > 0 { c.evictOldest() }
RECURSIVE EvictLoop(_, _)
EvictLoop(c, n) ==
    IF currentSize(c) + n > MaxSize /\ Len(c.lru) > 0
    THEN EvictLoop(evictOldest(c), n)
    ELSE c

\* a variant of Set that pushes a new list node for a key that is already there
SetPushingAgain(c, key, value, t) ==
    IF key \in DOMAIN c.items
    THEN [c EXCEPT !.items[key] = [value |-> value, expiresAt |-> t + TTL],
                   !.lru = PushFront(c.lru, key)]
    ELSE LET e == EvictLoop(c, Len(value))
         IN  [e EXCEPT !.items = [k \in (DOMAIN e.items) \cup {key} |->
                                     IF k = key
                                     THEN [value |-> value, expiresAt |-> t + TTL]
                                     ELSE e.items[k]],
                       !.lru = PushFront(e.lru, key)]

\* Set(key, value) at time t
Set(c, key, value, t) ==
    IF key \in DOMAIN c.items
    THEN [c EXCEPT !.items[key] = [value |-> value, expiresAt |-> t + TTL],
                   !.lru = MoveToFront(c.lru, key)]
    ELSE LET e == EvictLoop(c, Len(value))
         IN  [e EXCEPT !.items = [k \in (DOMAIN e.items) \cup {key} |->
                                     IF k = key
                                     THEN [value |-> value, expiresAt |-> t + TTL]
                                     ELSE e.items[k]],
                       !.lru = PushFront(e.lru, key)]

\* a variant of Get without the expiration check
GetIgnoringExpiry(c, key, t) ==
    IF key \notin DOMAIN c.items
    THEN [cache |-> [c EXCEPT !.misses = @ + 1], value |-> <<>>, ok |-> FALSE]
    ELSE [cache |-> [c EXCEPT !.lru = MoveToFront(c.lru, key), !.hits = @ + 1],
          value |-> c.items[key].value, ok |-> TRUE]

\* a variant of Get that takes an entry for expired one tick early (it tests
\* !Before where the code tests After)
GetExpiringEarly(c, key, t) ==
    IF key \notin DOMAIN c.items
    THEN [cache |-> [c EXCEPT !.misses = @ + 1], value |-> <<>>, ok |-> FALSE]
    ELSE IF t >= c.items[key].expiresAt
    THEN [cache |-> [removeItem(c, key) EXCEPT !.misses = @ + 1],
          value |-> <<>>, ok |-> FALSE]
    ELSE [cache |-> [c EXCEPT !.lru = MoveToFront(c.lru, key), !.hits = @ + 1],
          value |-> c.items[key].value, ok |-> TRUE]

\* Get(key) at time t: the cache after the call, the bytes returned, and ok
Get(c, key, t) ==
    IF key \notin DOMAIN c.items
    THEN [cache |-> [c EXCEPT !.misses = @ + 1], value |-> <<>>, ok |-> FALSE]
    ELSE IF t > c.items[key].expiresAt
    THEN [cache |-> [removeItem(c, key) EXCEPT !.misses = @ + 1],
          value |-> <<>>, ok |-> FALSE]
    ELSE [cache |-> [c EXCEPT !.lru = MoveToFront(c.lru, key), !.hits = @ + 1],
          value |-> c.items[key].value, ok |-> TRUE]

Delete(c, key) == IF key \in DOMAIN c.items THEN removeItem(c, key) ELSE c

\* Clear() replaces the map and the list; the counters stay
Clear(c) == [c EXCEPT !.items = <<>>, !.lru = <<>>]

\* one pass of the cleanup goroutine's loop body at time t
RECURSIVE SweepOver(_, _, _)
SweepOver(c, ks, t) ==
    IF ks = {} THEN c
    ELSE LET k == CHOOSE x \in ks : TRUE
         IN  SweepOver(IF t > c.items[k].expiresAt THEN removeItem(c, k) ELSE c,
                       ks \ {k}, t)

cleanup(c, t) == SweepOver(c, DOMAIN c.items, t)

(***************************************************************************)
(* Requests (provider.ChatCompletionRequest) and the cache key             *)
(* (Server.generateCacheKey).  An optional (pointer) field is <<>> when    *)
(* nil and <<v>> when set.                                                 *)
(***************************************************************************)
Message(role, content) == [role |-> role, content |-> content, name |-> ""]

Nil == <<>>
Some(v) == <<v>>

\* the x-gateway extension object: [cache |-> optional bool, provider |-> name]
GatewayExtensions(c, p) == [cache |-> c, provider |-> p]

ChatCompletionRequest(model, messages, temperature, topP, stream, maxTokens, user, xgateway) ==
    [model |-> model, messages |-> messages, temperature |-> temperature,
     topP |-> topP, stream |-> stream, maxTokens |-> maxTokens, user |-> user,
     xgateway |-> xgateway]

\* encoding/json of the anonymous struct {Model, Messages, Temperature,
\* MaxTokens}: the list of its fields, in order, each with its value
MarshalKeyStruct(req) ==
    << <<"Model", req.model>>,
       <<"Messages", [i \in 1..Len(req.messages) |->
                        << <<"role", req.messages[i].role>>,
                           <<"content", req.messages[i].content>> >>
                        \o (IF req.messages[i].name = "" THEN <<>>
                            ELSE << <<"name", req.messages[i].name>> >>)]>>,
       <<"Temperature", req.temperature>>,
       <<"MaxTokens", req.maxTokens>> >>

\* sha256.Sum256 and hex.EncodeToString: a digest that is a function of the
\* bytes hashed (collisions of SHA-256 are not modelled)
Sha256Hex(data) == <<"sha256", data>>

\* a variant of generateCacheKey that hashes the whole request instead of the
\* four-field struct
generateCacheKeyOfWholeRequest(req) ==
    Sha256Hex(<<MarshalKeyStruct(req), <<"TopP", req.topP>>, <<"Stream", req.stream>>,
                <<"User", req.user>>, <<"XGateway", req.xgateway>> >>)

\* a variant of generateCacheKey that hashes TopP as well
generateCacheKeyWithTopP(req) ==
    Sha256Hex(MarshalKeyStruct(req) \o << <<"TopP", req.topP>> >>)

generateCacheKey(req) == Sha256Hex(MarshalKeyStruct(req))

(***************************************************************************)
(* Rate Limiter (internal/middleware/middleware.go).  A rate.Limiter is a  *)
(* token bucket [burst, window, tokens, last] refilled continuously at     *)
(* burst/window tokens per tick; tokens are counted in units of 1/window   *)
(* of a token, so that the refill of one tick is the integer burst and one *)
(* request costs window units.                                             *)
(***************************************************************************)
LimitKeys == {"k1", "k2"}

Min(a, b) == IF a < b THEN a ELSE b

\* rate.NewLimiter(rate.Limit(requests/window.Seconds()), requests): a full bucket
NewLimiter(requests, window, t) ==
    [burst |-> requests, window |-> window, tokens |-> requests * window, last |-> t]

\* rate.Limiter.advance: the tokens of the bucket at time t
advance(lim, t) ==
    Min(lim.burst * lim.window,
        lim.tokens + (t - Min(lim.last, t)) * lim.burst)

\* rate.Limiter.Allow at time t: takes one token when one is there; a denied
\* call leaves the bucket as it was
LimiterAllow(lim, t) ==
    IF advance(lim, t) - lim.window >= 0
    THEN [lim |-> [lim EXCEPT !.tokens = advance(lim, t) - lim.window, !.last = t],
          ok |-> TRUE]
    ELSE [lim |-> lim, ok |-> FALSE]

\* config.RateLimitConfig: Global and PerKey, each Requests per Window
RateLimitConfig(globalRequests, globalWindow, perKeyRequests, perKeyWindow) ==
    [global |-> [requests |-> globalRequests, window |-> globalWindow],
     perKey |-> [requests |-> perKeyRequests, window |-> perKeyWindow]]

\* NewRateLimiter(cfg): the global limiter exists when cfg.Global.Requests > 0
NewRateLimiter(rlcfg, t) ==
    [cfg |-> rlcfg,
     hasGlobal |-> rlcfg.global.requests > 0,
     global |-> NewLimiter(rlcfg.global.requests, rlcfg.global.window, t),
     limiters |-> <<>>]

\* a variant of getLimiter that creates the key's limiter with a burst of one
\* request instead of cfg.PerKey.Requests
getLimiterBurstOne(rl, key, t) ==
    IF key \in DOMAIN rl.limiters
    THEN rl
    ELSE [rl EXCEPT !.limiters =
             [k \in (DOMAIN rl.limiters) \cup {key} |->
                 IF k = key
                 THEN NewLimiter(1, rl.cfg.perKey.window, t)
                 ELSE rl.limiters[k]]]

\* a variant of getLimiter without the two lookups: it stores a new limiter
\* for the key on every call
getLimiterAlwaysNew(rl, key, t) ==
    [rl EXCEPT !.limiters =
        [k \in (DOMAIN rl.limiters) \cup {key} |->
            IF k = key
            THEN NewLimiter(rl.cfg.perKey.requests, rl.cfg.perKey.window, t)
            ELSE rl.limiters[k]]]

\* getLimiter(key): the limiter map after the call (the key's limiter is
\* created when absent)
getLimiter(rl, key, t) ==
    IF key \in DOMAIN rl.limiters
    THEN rl
    ELSE [rl EXCEPT !.limiters =
             [k \in (DOMAIN rl.limiters) \cup {key} |->
                 IF k = key
                 THEN NewLimiter(rl.cfg.perKey.requests, rl.cfg.perKey.window, t)
                 ELSE rl.limiters[k]]]

\* a variant of Allow that asks the key's limiter before the global one
AllowPerKeyFirst(rl, key, t) ==
    LET l == getLimiter(rl, key, t)
        a == LimiterAllow(l.limiters[key], t)
        charged == [l EXCEPT !.limiters[key] = a.lim]
    IN  IF ~a.ok \/ (rl.hasGlobal /\ ~LimiterAllow(rl.global, t).ok)
        THEN [rl |-> charged, ok |-> FALSE]
        ELSE [rl |-> IF rl.hasGlobal
                     THEN [charged EXCEPT !.global = LimiterAllow(rl.global, t).lim]
                     ELSE charged,
              ok |-> TRUE]

\* a variant of Allow that puts the global token back when the key's limiter
\* denies the request
AllowReturningToken(rl, key, t) ==
    IF rl.hasGlobal /\ ~LimiterAllow(rl.global, t).ok
    THEN [rl |-> rl, ok |-> FALSE]
    ELSE LET l == getLimiter(rl, key, t)
             a == LimiterAllow(l.limiters[key], t)
         IN  [rl |-> [l EXCEPT !.limiters[key] = a.lim,
                               !.global = IF rl.hasGlobal /\ a.ok
                                          THEN LimiterAllow(rl.global, t).lim
                                          ELSE @],
              ok |-> a.ok]

\* Allow(key) at time t: the limiter after the call, and the answer
Allow(rl, key, t) ==
    IF rl.hasGlobal /\ ~LimiterAllow(rl.global, t).ok
    THEN [rl |-> rl, ok |-> FALSE]
    ELSE LET g == IF rl.hasGlobal
                  THEN [rl EXCEPT !.global = LimiterAllow(rl.global, t).lim]
                  ELSE rl
             l == getLimiter(g, key, t)
             a == LimiterAllow(l.limiters[key], t)
         IN  [rl |-> [l EXCEPT !.limiters[key] = a.lim], ok |-> a.ok]

NoRateLimiter == NewRateLimiter(RateLimitConfig(0, 1, 0, 1), 0)
NoStreak == [k \in LimitKeys |-> 0]

(***************************************************************************)
(* Provider Registry (internal/provider/registry.go) and the providers'    *)
(* SupportsModel (openai.go, anthropic.go)                                 *)
(***************************************************************************)
\* config.ProviderConfig: Name, Models, MaxRetries
ProviderConfig(name, models, maxRetries) ==
    [name |-> name, models |-> models, maxRetries |-> maxRetries]

\* config.RoutingConfig: DefaultProvider, ModelMappings (alias -> [provider, model]),
\* FallbackChain
RoutingConfig(defaultProvider, modelMappings, fallbackChain) ==
    [defaultProvider |-> defaultProvider, modelMappings |-> modelMappings,
     fallbackChain |-> fallbackChain]

OpenAIDefaultModels ==
    {"gpt-4", "gpt-4-turbo", "gpt-4o", "gpt-4o-mini", "gpt-3.5-turbo"}

AnthropicDefaultModels ==
    {"claude-3-opus-20240229", "claude-3-sonnet-20240229",
     "claude-3-haiku-20240307", "claude-3-5-sonnet-20241022"}

AnthropicShortNames ==
    {"claude-3-opus", "claude-3-sonnet", "claude-3-haiku", "claude-3-5-sonnet"}

\* createProvider: "anthropic" is an AnthropicProvider, every other name an
\* OpenAIProvider; an empty model list is replaced by the provider's defaults
createProvider(pc) ==
    [name |-> pc.name,
     kind |-> IF pc.name = "anthropic" THEN "anthropic" ELSE "openai",
     models |-> IF pc.models # {} THEN pc.models
                ELSE IF pc.name = "anthropic" THEN AnthropicDefaultModels
                ELSE OpenAIDefaultModels,
     maxRetries |-> pc.maxRetries]

SupportsModel(prov, model) ==
    \/ model \in prov.models
    \/ prov.kind = "anthropic" /\ model \in AnthropicShortNames

\* the last index of the provider list that satisfies P
LastIndex(provs, P(_)) ==
    CHOOSE i \in DOMAIN provs : P(provs[i]) /\ \A j \in DOMAIN provs : j > i => ~P(provs[j])

\* NewRegistry(cfg): providers by name, the model -> provider name table (the
\* configured models of each provider, then the routing aliases), the chain
NewRegistry(provs, routing) ==
    LET names == {provs[i].name : i \in DOMAIN provs}
        listed == UNION {provs[i].models : i \in DOMAIN provs}
        aliases == DOMAIN routing.modelMappings
    IN  [providers |->
            [n \in names |-> createProvider(provs[LastIndex(provs, LAMBDA pc : pc.name = n)])],
         modelMapping |->
            [m \in listed \cup aliases |->
                IF m \in aliases THEN routing.modelMappings[m].provider
                ELSE provs[LastIndex(provs, LAMBDA pc : m \in pc.models)].name],
         fallbackChain |-> routing.fallbackChain,
         defaultProvider |-> routing.defaultProvider]

\* a variant of GetForModel whose last step substitutes the head of the
\* fallback chain when no default provider is registered
GetForModelSubstituting(reg, model) ==
    IF model \in DOMAIN reg.modelMapping
       /\ reg.modelMapping[model] \in DOMAIN reg.providers
    THEN {[ok |-> TRUE, provider |-> reg.modelMapping[model]]}
    ELSE IF \E n \in DOMAIN reg.providers : SupportsModel(reg.providers[n], model)
    THEN {[ok |-> TRUE, provider |-> n] :
            n \in {x \in DOMAIN reg.providers : SupportsModel(reg.providers[x], model)}}
    ELSE IF reg.defaultProvider # "" /\ reg.defaultProvider \in DOMAIN reg.providers
    THEN {[ok |-> TRUE, provider |-> reg.defaultProvider]}
    ELSE IF reg.fallbackChain # <<>> /\ reg.fallbackChain[1] \in DOMAIN reg.providers
    THEN {[ok |-> TRUE, provider |-> reg.fallbackChain[1]]}
    ELSE {[ok |-> FALSE, provider |-> ""]}

\* a variant of GetForModel that tries the default provider before asking the
\* providers whether they support the model
GetForModelDefaultFirst(reg, model) ==
    IF model \in DOMAIN reg.modelMapping
       /\ reg.modelMapping[model] \in DOMAIN reg.providers
    THEN {[ok |-> TRUE, provider |-> reg.modelMapping[model]]}
    ELSE IF reg.defaultProvider # "" /\ reg.defaultProvider \in DOMAIN reg.providers
    THEN {[ok |-> TRUE, provider |-> reg.defaultProvider]}
    ELSE IF \E n \in DOMAIN reg.providers : SupportsModel(reg.providers[n], model)
    THEN {[ok |-> TRUE, provider |-> n] :
            n \in {x \in DOMAIN reg.providers : SupportsModel(reg.providers[x], model)}}
    ELSE {[ok |-> FALSE, provider |-> ""]}

\* GetForModel(model): the results the call can have, each [ok, provider].  The
\* second step ranges over the provider map, whose iteration order Go leaves
\* unspecified: any provider that supports the model can be the one returned.
GetForModel(reg, model) ==
    IF model \in DOMAIN reg.modelMapping
       /\ reg.modelMapping[model] \in DOMAIN reg.providers
    THEN {[ok |-> TRUE, provider |-> reg.modelMapping[model]]}
    ELSE IF \E n \in DOMAIN reg.providers : SupportsModel(reg.providers[n], model)
    THEN {[ok |-> TRUE, provider |-> n] :
            n \in {x \in DOMAIN reg.providers : SupportsModel(reg.providers[x], model)}}
    ELSE IF reg.defaultProvider # "" /\ reg.defaultProvider \in DOMAIN reg.providers
    THEN {[ok |-> TRUE, provider |-> reg.defaultProvider]}
    ELSE {[ok |-> FALSE, provider |-> ""]}

\* the fallback chain's registered providers, in order, without those in acc
RECURSIVE AppendChain(_, _, _)
AppendChain(reg, chain, acc) ==
    IF chain = <<>> THEN acc
    ELSE AppendChain(reg, Tail(chain),
            IF Head(chain) \in DOMAIN reg.providers
               /\ \A i \in DOMAIN acc : acc[i] # Head(chain)
            THEN Append(acc, Head(chain))
            ELSE acc)

\* a variant of GetWithFallback without the duplicate check
GetWithFallbackKeepingDuplicates(reg, model) ==
    (IF model \in DOMAIN reg.modelMapping
        /\ reg.modelMapping[model] \in DOMAIN reg.providers
     THEN <<reg.modelMapping[model]>>
     ELSE <<>>)
    \o SelectSeq(reg.fallbackChain, LAMBDA n : n \in DOMAIN reg.providers)

\* GetWithFallback(model): the mapped provider, then the fallback chain
GetWithFallback(reg, model) ==
    AppendChain(reg, reg.fallbackChain,
        IF model \in DOMAIN reg.modelMapping
           /\ reg.modelMapping[model] \in DOMAIN reg.providers
        THEN <<reg.modelMapping[model]>>
        ELSE <<>>)

(***************************************************************************)
(* Provider client (internal/provider/openai.go, anthropic.go).  The       *)
(* upstream's answer to one attempt is [status, body]; status 0 stands for *)
(* a transport failure (client.Do returned an error).  A response is       *)
(* modelled by its JSON bytes.                                             *)
(***************************************************************************)
Answer(status, body) == [status |-> status, body |-> body]

TransportFailure == Answer(0, <<>>)

\* ProviderError{StatusCode, Type} and plain errors (fmt.Errorf)
ProviderError(status) == [isProviderError |-> TRUE, statusCode |-> status, type |-> "api_error"]
PlainError == [isProviderError |-> FALSE, statusCode |-> 0, type |-> ""]
NoError == [isProviderError |-> FALSE, statusCode |-> -1, type |-> ""]

\* the loop of doWithRetry from attempt `attempt` on; answers[i] is the
\* upstream's answer to the i-th attempt, slept the seconds of each backoff
\* sleep so far, in order
RECURSIVE RetryLoop(_, _, _, _)
RetryLoop(maxRetries, answers, attempt, slept) ==
    IF attempt >= maxRetries
    THEN [ok |-> FALSE, resp |-> TransportFailure, attempts |-> attempt,
          slept |-> slept,
          last |-> IF attempt > 0 THEN answers[attempt].status ELSE 0]
    ELSE IF answers[attempt + 1].status = 0
            \/ answers[attempt + 1].status = 429
            \/ answers[attempt + 1].status >= 500
    THEN RetryLoop(maxRetries, answers, attempt + 1, Append(slept, attempt + 1))
    ELSE [ok |-> TRUE, resp |-> answers[attempt + 1], attempts |-> attempt + 1,
          slept |-> slept, last |-> answers[attempt + 1].status]

\* maxRetries := p.maxRetries; if maxRetries == 0 { maxRetries = 3 }
DefaultMaxRetries == 3
EffectiveMaxRetries(prov) ==
    IF prov.maxRetries = 0 THEN DefaultMaxRetries ELSE prov.maxRetries

\* a variant of doWithRetry whose loop stops one attempt early
doWithRetryOneFewer(prov, answers) ==
    RetryLoop(EffectiveMaxRetries(prov) - 1, answers, 0, <<>>)

doWithRetry(prov, answers) == RetryLoop(EffectiveMaxRetries(prov), answers, 0, <<>>)

\* ChatCompletion: [ok, body, err, attempts, last, slept]
ChatCompletion(prov, req, answers) ==
    LET d == doWithRetry(prov, answers)
    IN  IF ~d.ok
        THEN [ok |-> FALSE, body |-> <<>>, err |-> PlainError,
              attempts |-> d.attempts, last |-> d.last, slept |-> d.slept]
        ELSE IF d.resp.status # 200
        THEN [ok |-> FALSE, body |-> <<>>, err |-> ProviderError(d.resp.status),
              attempts |-> d.attempts, last |-> d.last, slept |-> d.slept]
        ELSE IF d.resp.body = <<>>
        THEN [ok |-> FALSE, body |-> <<>>, err |-> PlainError,
              attempts |-> d.attempts, last |-> d.last, slept |-> d.slept]
        ELSE [ok |-> TRUE, body |-> d.resp.body, err |-> NoError,
              attempts |-> d.attempts, last |-> d.last, slept |-> d.slept]

\* a variant of ChatCompletionStream that opens the stream through doWithRetry
ChatCompletionStreamRetrying(prov, req, answer) ==
    ChatCompletion(prov, req, [i \in 1..EffectiveMaxRetries(prov) |-> answer])

\* ChatCompletionStream: one attempt, no retry
ChatCompletionStream(prov, req, answer) ==
    IF answer.status = 0
    THEN [ok |-> FALSE, body |-> <<>>, err |-> PlainError,
          attempts |-> 1, last |-> 0, slept |-> <<>>]
    ELSE IF answer.status # 200
    THEN [ok |-> FALSE, body |-> <<>>, err |-> ProviderError(answer.status),
          attempts |-> 1, last |-> answer.status, slept |-> <<>>]
    ELSE [ok |-> TRUE, body |-> answer.body, err |-> NoError,
          attempts |-> 1, last |-> 200, slept |-> <<>>]

(***************************************************************************)
(* Metrics Collector (internal/metrics/metrics.go)                         *)
(***************************************************************************)
NewCollector ==
    [requests |-> <<>>, totalTokens |-> 0, cacheHits |-> 0, cacheMisses |-> 0,
     byProvider |-> <<>>]

\* provider.ProviderMetrics, as far as the handler fills it
ProviderMetrics(provider, model, success, timestamp) ==
    [provider |-> provider, model |-> model, promptTokens |-> 0,
     completionTokens |-> 0, totalTokens |-> 0, success |-> success,
     timestamp |-> timestamp]

\* RecordRequest(m) at time t: append, update the provider's stats, then keep
\* the records whose timestamp is after t - time.Hour
RecordRequest(c, m, t) ==
    LET old == IF m.provider \in DOMAIN c.byProvider
               THEN c.byProvider[m.provider]
               ELSE [requests |-> 0, errors |-> 0]
        new == [requests |-> old.requests + 1,
                errors |-> old.errors + (IF m.success THEN 0 ELSE 1)]
    IN  [c EXCEPT
            !.requests = SelectSeq(Append(c.requests, m),
                                   LAMBDA x : x.timestamp > t - Hour),
            !.totalTokens = @ + m.totalTokens,
            !.byProvider = [n \in (DOMAIN c.byProvider) \cup {m.provider} |->
                               IF n = m.provider THEN new ELSE c.byProvider[n]]]

\* GetStats(): the snapshot, as far as the collector is modelled
GetStats(c) ==
    [totalRequests |-> Len(c.requests), totalTokens |-> c.totalTokens,
     cacheHits |-> c.cacheHits, cacheMisses |-> c.cacheMisses,
     byProvider |-> c.byProvider]

RecordCacheHit(c) == [c EXCEPT !.cacheHits = @ + 1]
RecordCacheMiss(c) == [c EXCEPT !.cacheMisses = @ + 1]

(***************************************************************************)
(* Gateway Dispatcher (internal/server/handlers.go, server.go) behind the  *)
(* RateLimit middleware (internal/middleware/middleware.go)                *)
(***************************************************************************)
\* the requests of the gateway specification, by identifier: two requests, so
\* that every pair of requests and every interleaving of two handlers is covered
Slots == {1, 2}

GwKeys == {"k1"}

GwProviders ==
    <<ProviderConfig("openai", {"gpt-4"}, 0), ProviderConfig("anthropic", {}, 0)>>

GwModelMappings == [a \in {"fast"} |-> [provider |-> "openai", model |-> "gpt-3.5-turbo"]]

GwFallbackChain == <<"openai", "anthropic">>

\* the configurations: cache on or off, rate limiting on or off, a default
\* provider or none
GwConfigs ==
    [cacheEnabled : BOOLEAN, rateLimitEnabled : BOOLEAN, defaultProvider : {"", "openai"}]

\* the provider.Registry that server.New builds from the configuration; it is
\* never changed afterwards
registry ==
    NewRegistry(GwProviders,
                RoutingConfig(cfg.defaultProvider, GwModelMappings, GwFallbackChain))

GwRateLimitConfig ==
    RateLimitConfig(GlobalRequests, GlobalWindow, GwPerKeyRequests, PerKeyWindow)

\* the chat-completion requests sent to the gateway: a configured and an
\* unknown model, streaming or not, and the configured model with
\* x-gateway.cache = false and with x-gateway.cache = true
GwRequests ==
    { ChatCompletionRequest(m, <<Message("user", "hi")>>, Some(5), Nil, st, Nil, "", Nil) :
        m \in {"gpt-4", "unknown-model-xyz"}, st \in BOOLEAN }
    \cup { ChatCompletionRequest("gpt-4", <<Message("user", "hi")>>, Some(5), Nil, FALSE,
                                 Nil, "", Some(GatewayExtensions(Some(c), ""))) :
             c \in BOOLEAN }

\* what arrives: GET /health, POST /api/v1/cache/clear, or POST
\* /v1/chat/completions with a body that decodes to a request (Some) or not (Nil)
GwInputs ==
    {[path |-> "health", body |-> Nil], [path |-> "clear", body |-> Nil],
     [path |-> "chat", body |-> Nil]}
    \cup {[path |-> "chat", body |-> Some(q)] : q \in GwRequests}

\* what the upstream can answer to one attempt
UpstreamBodies == {Bytes(1), Bytes(2)}
UpstreamAnswers ==
    {TransportFailure, Answer(200, <<>>), Answer(400, <<>>), Answer(429, <<>>),
     Answer(503, <<>>)}
    \cup {Answer(200, b) : b \in UpstreamBodies}

Retriable(a) == a.status = 0 \/ a.status = 429 \/ a.status >= 500

\* the upstream's answers to the attempts of one call, as many as the retry loop
\* consumes: every answer but the last is one the loop retries on, and the last
\* is final unless the attempts are used up
AllAnswerSeqs ==
    {s \in UNION {[1..n -> UpstreamAnswers] : n \in 1..DefaultMaxRetries} :
        /\ \A i \in 1..(Len(s) - 1) : Retriable(s[i])
        /\ Len(s) = DefaultMaxRetries \/ ~Retriable(s[Len(s)])}

\* a healthy provider's upstream answers 200 with a well-formed body at once
HealthyAnswerSeqs == {<<Answer(200, b)>> : b \in UpstreamBodies}

AnswerSeqs(n) == IF n \in healthy THEN HealthyAnswerSeqs ELSE AllAnswerSeqs

NoResponse ==
    [status |-> 0, xcache |-> "", retryAfter |-> "", body |-> <<>>, errType |-> ""]

\* w.WriteHeader(status) and the body written
Response(status, xcache, body) ==
    [status |-> status, xcache |-> xcache, retryAfter |-> "", body |-> body,
     errType |-> ""]

\* writeError(w, status, errType, message)
writeError(status, errType) ==
    [status |-> status, xcache |-> "", retryAfter |-> "", body |-> <<>>,
     errType |-> errType]

IdleSlot ==
    [pc |-> "idle", path |-> "", key |-> "", body |-> Nil, admitted |-> FALSE,
     prov |-> "", resp |-> NoResponse, called |-> <<>>, recorded |-> 0,
     upstream |-> 0]

\* a variant of CacheFlag that lets every request take part in caching
CacheFlagAlwaysOn(req) == req.xgateway = Nil \/ req.xgateway # Nil

\* req.XGateway == nil || req.XGateway.Cache == nil || *req.XGateway.Cache
CacheFlag(req) ==
    \/ req.xgateway = Nil
    \/ req.xgateway[1].cache = Nil
    \/ req.xgateway[1].cache[1]

\* a variant of CacheRead without the test of req.Stream
CacheReadOfStreams(req) == cfg.cacheEnabled /\ CacheFlag(req)

\* the condition under which handleChatCompletion looks the request up in the
\* cache: !req.Stream && s.cache != nil && (the x-gateway.cache condition)
CacheRead(req) == ~req.stream /\ cfg.cacheEnabled /\ CacheFlag(req)

Finish(q, resp) == [q EXCEPT !.pc = "done", !.resp = resp]

\* what the RateLimit middleware writes for a denied request: 429, Retry-After:
\* 60 and {"error":{"message":"Rate limit exceeded","type":"rate_limit_error",
\* "code":429}}
RateLimitExceeded ==
    [status |-> 429, xcache |-> "", retryAfter |-> "60", body |-> <<>>,
     errType |-> "rate_limit_error"]

\* a variant of Denied without the return: the response is written and the
\* request goes on to the next handler
DeniedWithoutReturn(q) == [q EXCEPT !.pc = "routed", !.resp = RateLimitExceeded]

\* the slot of a request the limiter denied: answered, and not passed on
Denied(q) == Finish(q, RateLimitExceeded)

\* the RateLimit middleware, installed by setupRouter for every route when
\* cfg.RateLimit.Enabled: a denied request is answered 429 and goes no further
RateLimit(r) ==
    /\ reqs[r].pc = "idle"
    /\ \A q \in Slots : q < r => reqs[q].pc # "idle"
    /\ \E key \in GwKeys, in \in GwInputs :
        LET a == IF cfg.rateLimitEnabled
                 THEN Allow(limiter, key, now)
                 ELSE [rl |-> limiter, ok |-> TRUE]
            q == [reqs[r] EXCEPT !.path = in.path, !.key = key, !.body = in.body]
        IN  /\ limiter' = a.rl
            /\ reqs' = [reqs EXCEPT ![r] =
                          IF a.ok
                          THEN [q EXCEPT !.pc = "routed", !.admitted = TRUE]
                          ELSE Denied(q)]
    /\ UNCHANGED <<now, cache, streak, fpVars, opVars, cfg, metrics, healthy>>

handleHealth(r) ==
    /\ reqs[r].pc = "routed"
    /\ reqs[r].path = "health"
    /\ reqs' = [reqs EXCEPT ![r] = Finish(@, Response(200, "", <<>>))]
    /\ UNCHANGED <<now, cache, limiter, streak, fpVars, opVars, cfg, metrics, healthy>>

handleCacheClear(r) ==
    /\ reqs[r].pc = "routed"
    /\ reqs[r].path = "clear"
    /\ cache' = IF cfg.cacheEnabled THEN Clear(cache) ELSE cache
    /\ reqs' = [reqs EXCEPT ![r] = Finish(@, Response(200, "", <<>>))]
    /\ UNCHANGED <<now, limiter, streak, fpVars, opVars, cfg, metrics, healthy>>

\* handleChatCompletion up to the provider call: decode, GetForModel, cache read
handleChatCompletion(r) ==
    /\ reqs[r].pc = "routed"
    /\ reqs[r].path = "chat"
    /\ IF reqs[r].body = Nil
       THEN /\ reqs' = [reqs EXCEPT ![r] = Finish(@, writeError(400, "invalid request body"))]
            /\ UNCHANGED <<cache, metrics>>
       ELSE \E g \in GetForModel(registry, reqs[r].body[1].model) :
            LET req == reqs[r].body[1]
                got == Get(cache, generateCacheKey(req), now)
            IN  IF ~g.ok
                THEN /\ reqs' = [reqs EXCEPT ![r] = Finish(@, writeError(400, "model not found"))]
                     /\ UNCHANGED <<cache, metrics>>
                ELSE IF CacheRead(req)
                THEN /\ cache' = got.cache
                     /\ IF got.ok
                        THEN /\ metrics' = RecordCacheHit(metrics)
                             /\ reqs' = [reqs EXCEPT ![r] =
                                   Finish([@ EXCEPT !.prov = g.provider],
                                          Response(200, "HIT", got.value))]
                        ELSE /\ metrics' = RecordCacheMiss(metrics)
                             /\ reqs' = [reqs EXCEPT ![r] =
                                   [@ EXCEPT !.pc = "dispatch", !.prov = g.provider]]
                ELSE /\ reqs' = [reqs EXCEPT ![r] =
                                   [@ EXCEPT !.pc = "dispatch", !.prov = g.provider]]
                     /\ UNCHANGED <<cache, metrics>>
    /\ UNCHANGED <<now, limiter, streak, fpVars, opVars, cfg, healthy>>

\* the status the handler writes for a provider error
ErrorResponse(err) ==
    IF err.isProviderError
    THEN writeError(err.statusCode, err.type)
    ELSE writeError(500, "provider_error")

\* a variant of AfterProviderError that goes on to the next provider of
\* GetWithFallback when the first one failed
AfterProviderErrorTryingNext(q, res) ==
    LET rest == SelectSeq(GetWithFallback(registry, q.body[1].model),
                          LAMBDA n : n # q.prov)
    IN  IF rest = <<>>
        THEN Finish([q EXCEPT !.called = Append(@, q.prov), !.upstream = res.last],
                    ErrorResponse(res.err))
        ELSE Finish([q EXCEPT !.called = @ \o <<q.prov, rest[1]>>,
                              !.upstream = res.last],
                    IF rest[1] \in healthy
                    THEN Response(200, "MISS", Bytes(1))
                    ELSE ErrorResponse(res.err))

\* the handler after prov.ChatCompletion or prov.ChatCompletionStream returned
\* an error: the slot of the request q once the error is written and the
\* handler has returned
AfterProviderError(q, res) ==
    Finish([q EXCEPT !.called = Append(@, q.prov), !.upstream = res.last],
           ErrorResponse(res.err))

\* handleChatCompletion from the provider call on (non-streaming): the call
\* with its retries, then the metrics record, the cache write and the response
CompleteChat(r) ==
    /\ reqs[r].pc = "dispatch"
    /\ ~reqs[r].body[1].stream
    /\ \E res \in {ChatCompletion(registry.providers[reqs[r].prov], reqs[r].body[1], a) :
                        a \in AnswerSeqs(reqs[r].prov)} :
        LET req == reqs[r].body[1]
        IN  IF ~res.ok
            THEN /\ reqs' = [reqs EXCEPT ![r] = AfterProviderError(@, res)]
                 /\ UNCHANGED <<cache, metrics>>
            ELSE /\ metrics' = RecordRequest(metrics,
                                  ProviderMetrics(reqs[r].prov, req.model, TRUE, now), now)
                 /\ cache' = IF cfg.cacheEnabled /\ CacheFlag(req)
                             THEN Set(cache, generateCacheKey(req), res.body, now)
                             ELSE cache
                 /\ reqs' = [reqs EXCEPT ![r] =
                       Finish([@ EXCEPT !.called = Append(@, reqs[r].prov),
                                        !.upstream = res.last,
                                        !.recorded = @ + 1],
                              Response(200, "MISS", res.body))]
    /\ UNCHANGED <<now, limiter, streak, fpVars, opVars, cfg, healthy>>

\* handleStreamingCompletion: open the upstream stream (one attempt), relay it
\* to the end, then record the request
CompleteStream(r) ==
    /\ reqs[r].pc = "dispatch"
    /\ reqs[r].body[1].stream
    /\ \E res \in {ChatCompletionStream(registry.providers[reqs[r].prov],
                                             reqs[r].body[1], a[1]) :
                        a \in AnswerSeqs(reqs[r].prov)} :
        LET req == reqs[r].body[1]
        IN  IF ~res.ok
            THEN /\ reqs' = [reqs EXCEPT ![r] = AfterProviderError(@, res)]
                 /\ UNCHANGED metrics
            ELSE /\ metrics' = RecordRequest(metrics,
                                  ProviderMetrics(reqs[r].prov, req.model, TRUE, now), now)
                 /\ reqs' = [reqs EXCEPT ![r] =
                       Finish([@ EXCEPT !.called = Append(@, reqs[r].prov),
                                        !.upstream = res.last,
                                        !.recorded = @ + 1],
                              Response(200, "", res.body))]
    /\ UNCHANGED <<now, cache, limiter, streak, fpVars, opVars, cfg, healthy>>

\* the cleanup goroutine of the gateway's cache
GwCleanup ==
    /\ cfg.cacheEnabled
    /\ cache' = cleanup(cache, now)
    /\ cache' # cache
    /\ UNCHANGED <<now, limiter, streak, fpVars, opVars, gwVars>>

GatewayUnused ==
    /\ cfg = [cacheEnabled |-> FALSE, rateLimitEnabled |-> FALSE, defaultProvider |-> ""]
    /\ metrics = NewCollector
    /\ healthy = {}
    /\ reqs = <<>>

(***************************************************************************)
(* The clock                                                               *)
(***************************************************************************)
Tick ==
    /\ now < MaxTime
    /\ now' = now + 1
    /\ streak' = [k \in DOMAIN streak |-> 0]
    /\ UNCHANGED <<cache, limiter, fpVars, opVars, gwVars>>

(***************************************************************************)
(* Specification of the cache alone: any sequence of Get, Set, Delete,     *)
(* Clear and background sweeps, at any times.                              *)
(***************************************************************************)
\* the entry under key is in the cache and its expiry time has passed
Expired(key) ==
    /\ key \in DOMAIN cache.items
    /\ now > cache.items[key].expiresAt

\* a Get; output keeps the key asked for, whether its entry was there and
\* expired, and whether the call reported a hit
CacheGet ==
    \E key \in CacheKeys :
        /\ cache.hits + cache.misses < MaxLookups
        /\ cache' = Get(cache, key, now).cache
        /\ output' = [key |-> key, expired |-> Expired(key),
                      ok |-> Get(cache, key, now).ok]
        /\ UNCHANGED <<now, limiter, streak, fpVars, input, gwVars>>

CacheSet ==
    \E key \in CacheKeys, value \in CacheValues :
        /\ cache' = Set(cache, key, value, now)
        /\ UNCHANGED <<now, limiter, streak, fpVars, opVars, gwVars>>

CacheDelete ==
    \E key \in CacheKeys :
        /\ cache' = Delete(cache, key)
        /\ UNCHANGED <<now, limiter, streak, fpVars, opVars, gwVars>>

CacheClear ==
    /\ cache' = Clear(cache)
    /\ UNCHANGED <<now, limiter, streak, fpVars, opVars, gwVars>>

CacheCleanup ==
    /\ cache' = cleanup(cache, now)
    /\ UNCHANGED <<now, limiter, streak, fpVars, opVars, gwVars>>

InitCache ==
    /\ now = 0
    /\ cache = NewMemoryCache
    /\ limiter = NoRateLimiter
    /\ streak = NoStreak
    /\ fpReqs = <<>>
    /\ fpKeys = <<>>
    /\ input = <<>>
    /\ output = <<>>
    /\ GatewayUnused

NextCache ==
    \/ CacheGet
    \/ CacheSet
    \/ CacheDelete
    \/ CacheClear
    \/ CacheCleanup
    \/ Tick

SpecCache == InitCache /\ [][NextCache]_vars

\* the step is a Get: only Get counts a lookup
Lookup == cache'.hits + cache'.misses = cache.hits + cache.misses + 1

\* C17: a Get of a key whose entry has expired and has not been swept returns
\* a miss with no bytes, removes the entry from the map and the LRU list, and
\* counts one miss and no hit.
C17_ExpiredGetIsMiss ==
    [][(Lookup /\ Expired(output'.key)) =>
          /\ ~output'.ok
          /\ Get(cache, output'.key, now).value = <<>>
          /\ output'.key \notin DOMAIN cache'.items
          /\ \A i \in DOMAIN cache'.lru : cache'.lru[i] # output'.key
          /\ cache'.misses = cache.misses + 1
          /\ cache'.hits = cache.hits]_vars

\* C17 witness: after a hit, a Get of a key whose entry was in the cache and
\* expired returned a miss and removed the entry, while another entry stayed.
C17_Witness ==
    /\ output # <<>>
    /\ output.expired
    /\ ~output.ok
    /\ cache.misses = 1 /\ cache.hits = 1
    /\ output.key \notin DOMAIN cache.items
    /\ cache.items # <<>>

\* C36: after any sequence of Get, Set, Delete, Clear and sweeps the keys of
\* the items map and the keys in the LRU list are the same set and each key
\* is in the list exactly once, so that every item's element is the one list
\* node that carries the item's key.
C36_MapAndListAgree ==
    /\ {cache.lru[i] : i \in DOMAIN cache.lru} = DOMAIN cache.items
    /\ \A i, j \in DOMAIN cache.lru : cache.lru[i] = cache.lru[j] => i = j

\* C36 witness: after a hit and a Get that removed an expired entry, the cache
\* holds two entries again.
C36_Witness ==
    /\ output # <<>>
    /\ output.expired
    /\ ~output.ok
    /\ cache.hits = 1
    /\ Len(cache.lru) = 2
    /\ DOMAIN cache.items = {"ka", "kb"}

(***************************************************************************)
(* Specification of eviction: Get and Set at any times, with a log of the  *)
(* accesses kept beside the cache.  output.log lists the keys of the       *)
(* successful Gets and of the Sets, oldest first; output.evicted holds the *)
(* entries the last Set removed.                                           *)
(***************************************************************************)
EvictGet ==
    \E key \in CacheKeys :
        /\ Len(output.log) < MaxAccesses
        /\ cache.hits + cache.misses < MaxLookups
        /\ cache' = Get(cache, key, now).cache
        /\ output' = [log |-> IF Get(cache, key, now).ok
                              THEN Append(output.log, key) ELSE output.log,
                      evicted |-> <<>>]
        /\ UNCHANGED <<now, limiter, streak, fpVars, input, gwVars>>

EvictSet ==
    \E key \in CacheKeys, value \in CacheValues :
        /\ Len(output.log) < MaxAccesses
        /\ cache' = Set(cache, key, value, now)
        /\ output' = [log |-> Append(output.log, key),
                      evicted |-> [k \in (DOMAIN cache.items) \ (DOMAIN cache'.items)
                                     |-> cache.items[k]]]
        /\ UNCHANGED <<now, limiter, streak, fpVars, input, gwVars>>

InitEvict ==
    /\ now = 0
    /\ cache = NewMemoryCache
    /\ limiter = NoRateLimiter
    /\ streak = NoStreak
    /\ fpReqs = <<>>
    /\ fpKeys = <<>>
    /\ input = <<>>
    /\ output = [log |-> <<>>, evicted |-> <<>>]
    /\ GatewayUnused

NextEvict ==
    \/ EvictGet
    \/ EvictSet
    \/ Tick

SpecEvict == InitEvict /\ [][NextEvict]_vars

\* the position in the log of the most recent access of key (0: never)
LastAccess(log, key) ==
    LET at == {i \in DOMAIN log : log[i] = key}
    IN  IF at = {} THEN 0 ELSE CHOOSE i \in at : \A j \in at : j <= i

\* C31: when a Set of a new key evicts, every evicted entry was accessed
\* (successful Get or Set) less recently than every entry that stays,
\* whatever the insertion order and the expiry times.
C31_EvictsLeastRecentlyUsed ==
    [][\A k \in DOMAIN output'.evicted :
          \A j \in (DOMAIN cache.items) \cap (DOMAIN cache'.items) :
              LastAccess(output.log, k) < LastAccess(output.log, j)]_vars

\* C31 witness: "ka" was inserted before "kb" and expires before it, was read
\* after "kb" was inserted, and the Set of "kc" evicted "kb" and kept "ka".
C31_Witness ==
    /\ output.log = <<"ka", "kb", "ka", "kc">>
    /\ DOMAIN output.evicted = {"kb"}
    /\ DOMAIN cache.items = {"ka", "kc"}
    /\ cache.items["ka"].expiresAt < output.evicted["kb"].expiresAt

(***************************************************************************)
(* Specification of the rate limiter alone: Allow calls for any keys at    *)
(* any times, with and without a global limiter.                           *)
(***************************************************************************)
LimAllow ==
    \E key \in LimitKeys :
        /\ limiter' = Allow(limiter, key, now).rl
        /\ streak' = [streak EXCEPT ![key] =
                         IF Allow(limiter, key, now).ok THEN @ + 1 ELSE 0]
        /\ UNCHANGED <<now, cache, fpVars, opVars, gwVars>>

InitLimiter ==
    /\ now = 0
    /\ cache = NewMemoryCache
    /\ limiter \in {NewRateLimiter(RateLimitConfig(g, GlobalWindow, PerKeyRequests,
                                                   PerKeyWindow), 0) :
                     g \in {0, GlobalRequests}}
    /\ streak = NoStreak
    /\ fpReqs = <<>>
    /\ fpKeys = <<>>
    /\ input = <<>>
    /\ output = <<>>
    /\ GatewayUnused

NextLimiter ==
    \/ LimAllow
    \/ Tick

SpecLimiter == InitLimiter /\ [][NextLimiter]_vars

\* C10: with no time elapsing, at most C = cfg.PerKey.Requests Allow(key) calls
\* in a row for one key return true: C+1 immediate calls are never all admitted.
C10_AtMostCapacityInARow == \A k \in LimitKeys : streak[k] <= PerKeyRequests

\* C10 witness: a key was admitted C times in a row and its bucket has no
\* token left for a further call at this instant.
C10_Witness ==
    \E k \in LimitKeys :
        /\ streak[k] = PerKeyRequests
        /\ k \in DOMAIN limiter.limiters
        /\ ~LimiterAllow(limiter.limiters[k], now).ok

\* the limiter has a global bucket and it holds less than one token now
GlobalEmpty ==
    /\ limiter.hasGlobal
    /\ advance(limiter.global, now) < limiter.global.window

\* C18: while the global bucket has no token, Allow(key) returns false for
\* every key and leaves the limiter as it is: no per-key bucket is created,
\* none is charged, and no call made at that instant admits a key.
C18_GlobalDenialShortCircuits ==
    [][GlobalEmpty =>
          /\ \A k \in LimitKeys :
                /\ ~Allow(limiter, k, now).ok
                /\ Allow(limiter, k, now).rl = limiter
          /\ now' = now =>
                /\ limiter' = limiter
                /\ \A k \in LimitKeys : streak'[k] <= streak[k]]_vars

\* C18 witness: the calls of one key have emptied the global bucket, and a
\* second key, which the limiter now denies, still has no bucket of its own.
C18_Witness ==
    /\ GlobalEmpty
    /\ \E k, j \in LimitKeys :
          /\ k # j
          /\ k \in DOMAIN limiter.limiters
          /\ j \notin DOMAIN limiter.limiters
          /\ ~Allow(limiter, j, now).ok
          /\ streak[j] = 0

\* the key has a bucket that holds less than one token now
KeyOverQuota(k) ==
    /\ k \in DOMAIN limiter.limiters
    /\ advance(limiter.limiters[k], now) < limiter.limiters[k].window

\* C37: Allow(key) takes one token from the global bucket before it looks at
\* the per-key bucket: a call that the global bucket admits and the key's own
\* bucket denies returns false and still leaves the global bucket one token
\* (window units) poorer than it was at that instant.
C37_DeniedKeyStillChargesGlobal ==
    \A k \in LimitKeys :
        (limiter.hasGlobal /\ ~GlobalEmpty /\ KeyOverQuota(k)) =>
            /\ ~Allow(limiter, k, now).ok
            /\ Allow(limiter, k, now).rl.global.tokens =
                   advance(limiter.global, now) - limiter.global.window
            /\ Allow(limiter, k, now).rl.global.last = now

\* C37 witness: with a per-key quota below the global one and no time elapsed,
\* the calls of one key alone have emptied the global bucket, the last of them
\* denied, and the other key, which has made no admitted call, is denied.
C37_Witness ==
    /\ now = 0
    /\ limiter.cfg.perKey.requests < limiter.cfg.global.requests
    /\ GlobalEmpty
    /\ DOMAIN limiter.limiters = {"k1"}
    /\ KeyOverQuota("k1")
    /\ streak["k1"] = 0
    /\ ~Allow(limiter, "k2", now).ok

(***************************************************************************)
(* Specification of a schedule of Allow calls for one key: the limiter has *)
(* no global bucket and a per-key quota of input.requests per input.window *)
(* ticks; call i is made input.gaps[i] ticks after call i - 1 (the first   *)
(* one input.gaps[1] ticks after the limiter was built), and output lists  *)
(* the answers.                                                            *)
(***************************************************************************)
ScheduleCalls == PerKeyRequests + 2

Schedules ==
    [requests : 1..PerKeyRequests, window : 1..(PerKeyWindow + 1),
     gaps : UNION {[1..n -> 0..MaxGap] : n \in 1..ScheduleCalls}]

ScheduleAllow ==
    /\ Len(output) < Len(input.gaps)
    /\ now' = now + input.gaps[Len(output) + 1]
    /\ limiter' = Allow(limiter, "k1", now').rl
    /\ output' = Append(output, Allow(limiter, "k1", now').ok)
    /\ UNCHANGED <<cache, streak, fpVars, input, gwVars>>

InitSchedule ==
    /\ now = 0
    /\ cache = NewMemoryCache
    /\ input \in Schedules
    /\ limiter = NewRateLimiter(RateLimitConfig(0, 1, input.requests, input.window), 0)
    /\ streak = NoStreak
    /\ fpReqs = <<>>
    /\ fpKeys = <<>>
    /\ output = <<>>
    /\ GatewayUnused

NextSchedule == ScheduleAllow

SpecSchedule == InitSchedule /\ [][NextSchedule]_vars

\* the calls 2..i of the schedule were made with no time elapsing
Immediate(i) == \A j \in 2..i : input.gaps[j] = 0

\* C11: for a fresh key with capacity C and window W, the first C immediate
\* Allow calls return true, the next immediate call returns false, and a call
\* made when at least W/C time has passed since the call before it returns true.
C11_BurstThenRefill ==
    /\ \A i \in DOMAIN output :
          (i <= input.requests /\ Immediate(i)) => output[i]
    /\ (input.requests + 1 \in DOMAIN output /\ Immediate(input.requests + 1)) =>
          ~output[input.requests + 1]
    /\ \A i \in DOMAIN output :
          (i >= 2 /\ input.gaps[i] * input.requests >= input.window) => output[i]

\* C11 witness: C >= 2 immediate calls were admitted, the next immediate one
\* was denied, and the call made after the least whole number of ticks that
\* is at least W/C was admitted.
C11_Witness ==
    /\ input.requests >= 2
    /\ Len(output) = input.requests + 2
    /\ Immediate(input.requests + 1)
    /\ \A i \in 1..input.requests : output[i]
    /\ ~output[input.requests + 1]
    /\ input.gaps[input.requests + 2] * input.requests >= input.window
    /\ (input.gaps[input.requests + 2] - 1) * input.requests < input.window
    /\ input.window > input.requests
    /\ output[input.requests + 2]

(***************************************************************************)
(* Specification of the provider client's call: ChatCompletion of an       *)
(* OpenAI or Anthropic provider with any configured maxRetries, against    *)
(* any sequence of upstream answers.                                       *)
(***************************************************************************)
RetryAnswers == UpstreamAnswers \cup {Answer(500, <<>>)}

\* config.ProviderConfig.MaxRetries is an int that Load does not validate: a
\* negative value reaches the provider as it is
RetryProviders ==
    {createProvider(ProviderConfig(n, {}, mr)) :
        n \in {"openai", "anthropic"}, mr \in (-1)..MaxRetriesCfg}

RetryRequest ==
    ChatCompletionRequest("gpt-4", <<Message("user", "hi")>>, Nil, Nil, FALSE, Nil, "", Nil)

ClientCall ==
    /\ output = <<>>
    /\ output' = ChatCompletion(input.prov, RetryRequest, input.answers)
    /\ UNCHANGED <<now, cache, limiter, streak, fpVars, input, gwVars>>

InitRetry ==
    /\ now = 0
    /\ cache = NewMemoryCache
    /\ limiter = NoRateLimiter
    /\ streak = NoStreak
    /\ fpReqs = <<>>
    /\ fpKeys = <<>>
    /\ input \in UNION {[prov : {p}, answers : [1..EffectiveMaxRetries(p) -> RetryAnswers]] :
                         p \in RetryProviders}
    /\ output = <<>>
    /\ GatewayUnused

NextRetry == ClientCall

SpecRetry == InitRetry /\ [][NextRetry]_vars

\* the upstream answers 500 to the first two attempts and 200 with a
\* well-formed body to the third, and the client makes up to three attempts
TwoFailuresThenSuccess ==
    /\ EffectiveMaxRetries(input.prov) = 3
    /\ input.answers[1].status = 500
    /\ input.answers[2].status = 500
    /\ input.answers[3].status = 200
    /\ input.answers[3].body # <<>>

\* C12: with maxRetries = 3 and an upstream that answers 500, 500, 200,
\* ChatCompletion returns success with no error after exactly 3 attempts,
\* having slept 1 second after the first failure and 2 after the second.
C12_RetryUntilSuccess ==
    (output # <<>> /\ TwoFailuresThenSuccess) =>
        /\ output.ok
        /\ output.err = NoError
        /\ output.body = input.answers[3].body
        /\ output.attempts = 3
        /\ output.slept = <<1, 2>>

\* C12 witness: such a call was made by an Anthropic provider configured with
\* maxRetries = 3 and succeeded at the third attempt.
C12_Witness ==
    /\ output # <<>>
    /\ TwoFailuresThenSuccess
    /\ input.prov.kind = "anthropic"
    /\ input.prov.maxRetries = 3
    /\ output.ok
    /\ output.attempts = 3

\* the bounds and the retry rule of one call: between 1 and the effective
\* maxRetries attempts, every attempt but the last answered by a transport
\* failure, 429 or >= 500, and a last answer of any other status returned
\* without a backoff after it, as a ProviderError of that status unless it is 200
AttemptsWithinBounds ==
    /\ output.attempts >= 1
    /\ output.attempts <= EffectiveMaxRetries(input.prov)
    /\ \A i \in 1..(output.attempts - 1) : Retriable(input.answers[i])
    /\ ~Retriable(input.answers[output.attempts]) =>
          /\ Len(output.slept) = output.attempts - 1
          /\ input.answers[output.attempts].status # 200 =>
                output.err = ProviderError(input.answers[output.attempts].status)

\* C32: one non-streaming call makes at least 1 and at most maxRetries
\* attempts (3 when configured as 0); a further attempt follows only a
\* transport failure or a 429 or >= 500 answer; any other status ends the call
\* after that attempt with no backoff, a non-200 one as a ProviderError of
\* that status.
C32_AttemptsBoundedAndTriggered == output # <<>> => AttemptsWithinBounds

\* the same for the providers configured with maxRetries >= 0, which holds
AttemptsBoundedForNonNegative ==
    (output # <<>> /\ input.prov.maxRetries >= 0) => AttemptsWithinBounds

(***************************************************************************)
(* Specification of the opening of a stream: ChatCompletionStream of an    *)
(* OpenAI or Anthropic provider with any maxRetries; input.answers are the *)
(* answers the upstream would give to a first and to a second attempt.     *)
(***************************************************************************)
StreamInputs ==
    [prov : {createProvider(ProviderConfig(n, {}, mr)) :
                n \in {"openai", "anthropic"}, mr \in 0..MaxRetriesCfg},
     answers : [1..2 -> RetryAnswers]]

StreamCall ==
    /\ output = <<>>
    /\ output' = ChatCompletionStream(input.prov,
                                      [RetryRequest EXCEPT !.stream = TRUE],
                                      input.answers[1])
    /\ UNCHANGED <<now, cache, limiter, streak, fpVars, input, gwVars>>

InitStreamOpen ==
    /\ now = 0
    /\ cache = NewMemoryCache
    /\ limiter = NoRateLimiter
    /\ streak = NoStreak
    /\ fpReqs = <<>>
    /\ fpKeys = <<>>
    /\ input \in StreamInputs
    /\ output = <<>>
    /\ GatewayUnused

NextStreamOpen == StreamCall

SpecStreamOpen == InitStreamOpen /\ [][NextStreamOpen]_vars

\* C39: a streaming provider call makes exactly one upstream attempt and
\* sleeps no backoff; a transport failure on opening the stream is returned
\* at once as an error, a 429 or 5xx status at once as a ProviderError of
\* that status.
C39_StreamOpensOnce ==
    output # <<>> =>
        /\ output.attempts = 1
        /\ output.slept = <<>>
        /\ output.last = input.answers[1].status
        /\ input.answers[1].status = 0 => (~output.ok /\ output.err = PlainError)
        /\ (input.answers[1].status = 429 \/ input.answers[1].status >= 500) =>
              (~output.ok /\ output.err = ProviderError(input.answers[1].status))

\* C39 witness: the upstream answered 429 to the opening of the stream and
\* would have answered 200 to a second attempt; a provider that retries
\* non-streaming calls three times returned the 429 as a ProviderError.
C39_Witness ==
    /\ output # <<>>
    /\ input.prov.maxRetries = 3
    /\ input.answers[1].status = 429
    /\ input.answers[2].status = 200
    /\ ~output.ok
    /\ output.err = ProviderError(429)
    /\ output.attempts = 1

(***************************************************************************)
(* Specification of a cancelled provider call: the request's context is    *)
(* cancelled while attempt input.cancelAt of doWithRetry is in flight.     *)
(* The request was built with NewRequestWithContext, so client.Do returns  *)
(* the context's error for that attempt and for every later one; the       *)
(* attempts before it got the answers input.answers, all of them answers   *)
(* the loop retries on.                                                    *)
(***************************************************************************)
CancelInputs ==
    {c \in UNION {[prov : {p}, answers : [1..EffectiveMaxRetries(p) -> RetryAnswers],
                    cancelAt : 1..EffectiveMaxRetries(p)] : p \in RetryProviders} :
        \A i \in 1..(c.cancelAt - 1) : Retriable(c.answers[i])}

\* what client.Do returns to each attempt
AnswersUnderCancel(c) ==
    [i \in DOMAIN c.answers |-> IF i >= c.cancelAt THEN TransportFailure
                                ELSE c.answers[i]]

CancelledCall ==
    /\ output = <<>>
    /\ output' = ChatCompletion(input.prov, RetryRequest, AnswersUnderCancel(input))
    /\ UNCHANGED <<now, cache, limiter, streak, fpVars, input, gwVars>>

InitCancel ==
    /\ now = 0
    /\ cache = NewMemoryCache
    /\ limiter = NoRateLimiter
    /\ streak = NoStreak
    /\ fpReqs = <<>>
    /\ fpKeys = <<>>
    /\ input \in CancelInputs
    /\ output = <<>>
    /\ GatewayUnused

NextCancel == CancelledCall

SpecCancel == InitCancel /\ [][NextCancel]_vars

\* C29: once the context is cancelled during an attempt, the client returns
\* the error without starting a further attempt and without a further
\* backoff sleep: the attempt in flight is the last, and the only sleeps are
\* those before it.
C29_CancelStopsRetries ==
    output # <<>> =>
        /\ ~output.ok
        /\ output.attempts = input.cancelAt
        /\ Len(output.slept) = input.cancelAt - 1

(***************************************************************************)
(* Specification of the streaming relay: handleStreamingCompletion after   *)
(* prov.ChatCompletionStream returned the upstream stream, whose lines are *)
(* input.lines; input.flusher tells whether the ResponseWriter is an       *)
(* http.Flusher.  A write to the caller can fail at any line, and every    *)
(* write after a failed one fails.  output is the state of the handler:    *)
(* the lines read, the lines delivered, whether a write has failed, the    *)
(* lines read after that, and whether stream.Close() has run.              *)
(***************************************************************************)
RelayInputs ==
    [lines : UNION {[1..n -> {"", "data"}] : n \in 0..MaxLines}, flusher : BOOLEAN]

\* w is not an http.Flusher: writeError and return (the deferred Close runs)
StreamingUnsupported ==
    /\ output.pc = "opened"
    /\ ~input.flusher
    /\ output' = [output EXCEPT !.pc = "done", !.closed = TRUE]
    /\ UNCHANGED <<now, cache, limiter, streak, fpVars, input, gwVars>>

\* one turn of the loop: scanner.Scan() delivers the next line; a non-empty
\* line is written with fmt.Fprintf, whose error is not looked at, and flushed
RelayLine ==
    /\ output.pc \in {"opened", "relaying"}
    /\ input.flusher
    /\ output.read < Len(input.lines)
    /\ \E ok \in IF output.writeFailed THEN {FALSE} ELSE BOOLEAN :
          LET line == input.lines[output.read + 1]
          IN  output' = [output EXCEPT
                           !.pc = "relaying",
                           !.read = @ + 1,
                           !.readAfterFailure = IF output.writeFailed THEN @ + 1 ELSE @,
                           !.delivered = IF line # "" /\ ok THEN Append(@, line) ELSE @,
                           !.writeFailed = @ \/ (line # "" /\ ~ok)]
    /\ UNCHANGED <<now, cache, limiter, streak, fpVars, input, gwVars>>

\* scanner.Scan() returns false at the end of the upstream stream: the request
\* is recorded and the handler returns (the deferred Close runs)
RelayEnd ==
    /\ output.pc \in {"opened", "relaying"}
    /\ input.flusher
    /\ output.read = Len(input.lines)
    /\ output' = [output EXCEPT !.pc = "done", !.closed = TRUE]
    /\ metrics' = RecordRequest(metrics, ProviderMetrics("openai", "gpt-4", TRUE, now), now)
    /\ UNCHANGED <<now, cache, limiter, streak, fpVars, input, cfg, healthy, reqs>>

InitRelay ==
    /\ now = 0
    /\ cache = NewMemoryCache
    /\ limiter = NoRateLimiter
    /\ streak = NoStreak
    /\ fpReqs = <<>>
    /\ fpKeys = <<>>
    /\ input \in RelayInputs
    /\ output = [pc |-> "opened", read |-> 0, readAfterFailure |-> 0,
                 delivered |-> <<>>, writeFailed |-> FALSE, closed |-> FALSE]
    /\ GatewayUnused

NextRelay ==
    \/ StreamingUnsupported
    \/ RelayLine
    \/ RelayEnd

SpecRelay == InitRelay /\ [][NextRelay]_vars

(***************************************************************************)
(* Specification of usage accounting: one request answered by an OpenAI    *)
(* or Anthropic upstream with any usage figures, streaming or not, and the *)
(* record the handler passes to RecordRequest.                             *)
(***************************************************************************)
\* OpenAIProvider.ChatCompletion decodes the upstream's usage object as it is
DecodeUsage(u) ==
    [promptTokens |-> u.prompt_tokens, completionTokens |-> u.completion_tokens,
     totalTokens |-> u.total_tokens]

\* AnthropicProvider.convertResponse: the total is computed from the two counts
convertResponseUsage(u) ==
    [promptTokens |-> u.input_tokens, completionTokens |-> u.output_tokens,
     totalTokens |-> u.input_tokens + u.output_tokens]

\* resp.Usage of the response a provider's ChatCompletion returns
ResponseUsage(kind, u) ==
    IF kind = "anthropic" THEN convertResponseUsage(u) ELSE DecodeUsage(u)

\* the ProviderMetrics handleChatCompletion records after a successful call
ChatUsageRecord(provider, model, usage, t) ==
    [ProviderMetrics(provider, model, TRUE, t) EXCEPT
        !.promptTokens = usage.promptTokens,
        !.completionTokens = usage.completionTokens,
        !.totalTokens = usage.totalTokens]

\* the ProviderMetrics handleStreamingCompletion records: no token counts set
StreamUsageRecord(provider, model, t) == ProviderMetrics(provider, model, TRUE, t)

UsageInputs ==
    [kind : {"openai"}, stream : BOOLEAN,
     usage : [prompt_tokens : 0..MaxTokens, completion_tokens : 0..MaxTokens,
              total_tokens : 0..(2 * MaxTokens)]]
    \cup [kind : {"anthropic"}, stream : BOOLEAN,
          usage : [input_tokens : 0..MaxTokens, output_tokens : 0..MaxTokens]]

RecordUsage ==
    /\ metrics.requests = <<>>
    /\ metrics' = RecordRequest(metrics,
                     IF input.stream
                     THEN StreamUsageRecord(input.kind, "gpt-4", now)
                     ELSE ChatUsageRecord(input.kind, "gpt-4",
                                          ResponseUsage(input.kind, input.usage), now),
                     now)
    /\ UNCHANGED <<now, cache, limiter, streak, fpVars, opVars, cfg, healthy, reqs>>

InitUsage ==
    /\ now = 0
    /\ cache = NewMemoryCache
    /\ limiter = NoRateLimiter
    /\ streak = NoStreak
    /\ fpReqs = <<>>
    /\ fpKeys = <<>>
    /\ input \in UsageInputs
    /\ output = <<>>
    /\ GatewayUnused

NextUsage == RecordUsage

SpecUsage == InitUsage /\ [][NextUsage]_vars

\* C13: every record passed to RecordRequest has totalTokens = promptTokens +
\* completionTokens, whatever the provider and whatever usage the upstream
\* reported.
C13_TotalIsSum ==
    \A i \in DOMAIN metrics.requests :
        metrics.requests[i].totalTokens =
            metrics.requests[i].promptTokens + metrics.requests[i].completionTokens

(***************************************************************************)
(* Specification of the request sent upstream: one call of ChatCompletion  *)
(* or ChatCompletionStream of an OpenAI or Anthropic provider client with  *)
(* any request.  A JSON object is the function from the names of the       *)
(* fields that encoding/json writes to their values.                       *)
(***************************************************************************)
\* the fields of the set that are present in the object, with their values
JsonObject(fields) ==
    [k \in {f[1] : f \in {g \in fields : g[2]}} |->
        (CHOOSE f \in fields : f[1] = k)[3]]

\* json.Marshal of a ChatCompletionRequest: model and messages always, every
\* other field under omitempty
MarshalRequest(req) ==
    JsonObject({<<"model", TRUE, req.model>>,
                <<"messages", TRUE, req.messages>>,
                <<"temperature", req.temperature # Nil, req.temperature>>,
                <<"top_p", req.topP # Nil, req.topP>>,
                <<"stream", req.stream, req.stream>>,
                <<"max_tokens", req.maxTokens # Nil, req.maxTokens>>,
                <<"user", req.user # "", req.user>>,
                <<"x-gateway", req.xgateway # Nil, req.xgateway>>})

\* a variant of CleanCopy that leaves the extensions in the copy
CleanCopyKeepingExtensions(req) == [caller |-> req, copy |-> req]

\* cleanReq := *req; cleanReq.XGateway = nil: the caller's request and the copy
CleanCopy(req) == [caller |-> req, copy |-> [req EXCEPT !.xgateway = Nil]]

mapModel(model) ==
    CASE model = "claude-3-opus" -> "claude-3-opus-20240229"
      [] model = "claude-3-sonnet" -> "claude-3-sonnet-20240229"
      [] model = "claude-3-haiku" -> "claude-3-haiku-20240307"
      [] model = "claude-3-5-sonnet" -> "claude-3-5-sonnet-20241022"
      [] OTHER -> model

\* AnthropicProvider.convertRequest: the last system message becomes the system
\* prompt, every other message keeps its content under role assistant or user
convertRequest(req) ==
    LET sys == SelectSeq(req.messages, LAMBDA m : m.role = "system")
        rest == SelectSeq(req.messages, LAMBDA m : m.role # "system")
    IN  [model |-> mapModel(req.model),
         messages |-> [i \in 1..Len(rest) |->
                          [role |-> IF rest[i].role = "assistant" THEN "assistant"
                                    ELSE "user",
                           content |-> rest[i].content]],
         maxTokens |-> IF req.maxTokens = Nil THEN 4096 ELSE req.maxTokens[1],
         temperature |-> req.temperature,
         topP |-> req.topP,
         stream |-> FALSE,
         system |-> IF sys = <<>> THEN "" ELSE sys[Len(sys)].content]

\* json.Marshal of an anthropicRequest
MarshalAnthropicRequest(a) ==
    JsonObject({<<"model", TRUE, a.model>>,
                <<"messages", TRUE, a.messages>>,
                <<"max_tokens", TRUE, a.maxTokens>>,
                <<"temperature", a.temperature # Nil, a.temperature>>,
                <<"top_p", a.topP # Nil, a.topP>>,
                <<"stream", a.stream, a.stream>>,
                <<"system", a.system # "", a.system>>})

\* what ChatCompletion (streaming = FALSE) or ChatCompletionStream (streaming =
\* TRUE) of the provider puts on the wire, and the caller's request afterwards
UpstreamRequest(prov, req, streaming) ==
    IF prov.kind = "anthropic"
    THEN [caller |-> req,
          body |-> MarshalAnthropicRequest(
                       IF streaming THEN [convertRequest(req) EXCEPT !.stream = TRUE]
                       ELSE convertRequest(req))]
    ELSE [caller |-> CleanCopy(req).caller,
          body |-> MarshalRequest(
                       IF streaming THEN [CleanCopy(req).copy EXCEPT !.stream = TRUE]
                       ELSE CleanCopy(req).copy)]

UpstreamInputs ==
    [prov : {createProvider(ProviderConfig(n, {}, 0)) : n \in {"openai", "anthropic"}},
     streaming : BOOLEAN,
     req : {ChatCompletionRequest(m, msgs, t, Nil, st, mt, u, x) :
              m \in {"gpt-4", "claude-3-opus"},
              msgs \in {<<Message("user", "hi")>>,
                        <<Message("system", "s"), Message("user", "hi")>>},
              t \in {Nil, Some(5)}, st \in BOOLEAN, mt \in {Nil, Some(1)},
              u \in {"", "u"},
              x \in {Nil, Some(GatewayExtensions(Nil, "")),
                     Some(GatewayExtensions(Some(FALSE), "")),
                     Some(GatewayExtensions(Some(TRUE), "openai"))}}]

SendUpstream ==
    /\ output = <<>>
    /\ output' = UpstreamRequest(input.prov, input.req, input.streaming)
    /\ UNCHANGED <<now, cache, limiter, streak, fpVars, input, gwVars>>

InitUpstream ==
    /\ now = 0
    /\ cache = NewMemoryCache
    /\ limiter = NoRateLimiter
    /\ streak = NoStreak
    /\ fpReqs = <<>>
    /\ fpKeys = <<>>
    /\ input \in UpstreamInputs
    /\ output = <<>>
    /\ GatewayUnused

NextUpstream == SendUpstream

SpecUpstream == InitUpstream /\ [][NextUpstream]_vars

\* C16: the body a provider client sends upstream, for ChatCompletion and for
\* ChatCompletionStream, has no x-gateway field, and the caller's request is
\* the same after the call as before, extensions included.
C16_ExtensionsStripped ==
    output # <<>> =>
        /\ "x-gateway" \notin DOMAIN output.body
        /\ output.caller = input.req
        /\ output.caller.xgateway = input.req.xgateway

\* C16 witness: an OpenAI client sent the body of a request that carries
\* x-gateway.cache = false, and the caller still holds that extension.
C16_Witness ==
    /\ output # <<>>
    /\ input.prov.kind = "openai"
    /\ input.req.xgateway = Some(GatewayExtensions(Some(FALSE), ""))
    /\ output.caller.xgateway = Some(GatewayExtensions(Some(FALSE), ""))
    /\ output.body["model"] = input.req.model

(***************************************************************************)
(* Specification of the Anthropic translation: convertRequest applied to   *)
(* a request with any messages, model and maxTokens.                       *)
(***************************************************************************)
TranslateInputs ==
    {ChatCompletionRequest(m, msgs, Nil, Nil, FALSE, mt, "", Nil) :
        m \in {"claude-3-opus", "claude-3-5-sonnet", "claude-3-haiku-20240307"},
        msgs \in UNION {[1..n -> {Message(r, c) : r \in {"system", "user", "assistant"},
                                                  c \in {"a", "b"}}]
                          : n \in 0..MaxMessages},
        mt \in {Nil, Some(1)}}

Translate ==
    /\ output = <<>>
    /\ output' = convertRequest(input)
    /\ UNCHANGED <<now, cache, limiter, streak, fpVars, input, gwVars>>

InitTranslate ==
    /\ now = 0
    /\ cache = NewMemoryCache
    /\ limiter = NoRateLimiter
    /\ streak = NoStreak
    /\ fpReqs = <<>>
    /\ fpKeys = <<>>
    /\ input \in TranslateInputs
    /\ output = <<>>
    /\ GatewayUnused

NextTranslate == Translate

SpecTranslate == InitTranslate /\ [][NextTranslate]_vars

\* the contents of the messages of a sequence, in order
Contents(msgs) == [i \in DOMAIN msgs |-> msgs[i].content]

\* every non-system message is in the upstream list with its content, in the
\* original order
NonSystemKept ==
    Contents(output.messages) =
        Contents(SelectSeq(input.messages, LAMBDA m : m.role # "system"))

\* max_tokens is the request's value, or 4096 when absent
MaxTokensDefaulted ==
    output.maxTokens = IF input.maxTokens = Nil THEN 4096 ELSE input.maxTokens[1]

\* a short alias becomes its versioned identifier, another name is unchanged
ModelMapped ==
    /\ input.model = "claude-3-opus" => output.model = "claude-3-opus-20240229"
    /\ input.model = "claude-3-5-sonnet" => output.model = "claude-3-5-sonnet-20241022"
    /\ input.model = "claude-3-haiku-20240307" => output.model = input.model

\* C33: the translation loses no message: every non-system message is in the
\* upstream list with its content and in order, the content of every system
\* message is carried in the system field, max_tokens is the request's value or
\* 4096, and a short model alias is replaced by its versioned identifier.
C33_TranslationLosesNothing ==
    output # <<>> =>
        /\ NonSystemKept
        /\ \A i \in DOMAIN input.messages :
              input.messages[i].role = "system" =>
                  output.system = input.messages[i].content
        /\ MaxTokensDefaulted
        /\ ModelMapped

\* the parts of C33 other than the system messages, which hold
TranslationKeepsTheRest ==
    output # <<>> => (NonSystemKept /\ MaxTokensDefaulted /\ ModelMapped)

(***************************************************************************)
(* Specification of the health probe: HealthCheck of a provider client of  *)
(* any type against any upstream answer (status 0: client.Do failed).      *)
(* output holds the error returned (err: non-nil) and the provider after   *)
(* the call.                                                               *)
(***************************************************************************)
\* OpenAIProvider.HealthCheck: GET /models, healthy on 200 only;
\* AnthropicProvider.HealthCheck: a minimal POST /messages, healthy on 200 and
\* on 400.  Neither assigns to a field of p.
HealthCheck(prov, answer) ==
    [err |-> IF answer.status = 0 THEN TRUE
             ELSE IF prov.kind = "anthropic"
             THEN answer.status # 200 /\ answer.status # 400
             ELSE answer.status # 200,
     prov |-> prov]

ProbeInputs ==
    [prov : {createProvider(ProviderConfig(n, {}, mr)) :
                n \in {"openai", "anthropic", "azure", "local"}, mr \in 0..MaxRetriesCfg},
     answer : {Answer(st, <<>>) : st \in {0, 200, 204, 400, 401, 429, 500}}]

Probe ==
    /\ output = <<>>
    /\ output' = HealthCheck(input.prov, input.answer)
    /\ UNCHANGED <<now, cache, limiter, streak, fpVars, input, gwVars>>

InitProbe ==
    /\ now = 0
    /\ cache = NewMemoryCache
    /\ limiter = NoRateLimiter
    /\ streak = NoStreak
    /\ fpReqs = <<>>
    /\ fpKeys = <<>>
    /\ input \in ProbeInputs
    /\ output = <<>>
    /\ GatewayUnused

NextProbe == Probe

SpecProbe == InitProbe /\ [][NextProbe]_vars

\* C34: HealthCheck of every provider type returns an error whenever the
\* transport fails or the upstream answers with a non-2xx status (400
\* included), returns nil otherwise, and changes no field of the provider.
C34_HealthCheckReportsNon2xx ==
    output # <<>> =>
        /\ output.err <=> (\/ input.answer.status = 0
                           \/ input.answer.status < 200
                           \/ input.answer.status >= 300)
        /\ output.prov = input.prov

\* what holds of all provider types: a transport failure and every status
\* other than 200 and 400 is an error, 200 is healthy, the provider is unchanged
HealthCheckAgreesOutside400 ==
    output # <<>> =>
        /\ input.answer.status \notin {200, 400} => output.err
        /\ input.answer.status = 200 => ~output.err
        /\ output.prov = input.prov

(***************************************************************************)
(* Specification of the context switch (kube-dashboard-lite, k8s.Client):  *)
(* SwitchContext requests and GetClusterInfo requests served concurrently  *)
(* on the one Client of the Handler.  Client has no lock.  A clientset and *)
(* a config are named by the context they were built for.  output holds    *)
(* the Client's fields, the position of the running SwitchContext, and     *)
(* what each GetClusterInfo has read so far.                               *)
(***************************************************************************)
Contexts == {"dev", "prod", "stage"}
Readers == {1, 2}

\* NewClient(ClientOptions{Kubeconfig, Context}) succeeded: newClient is built
SwitchContextStart ==
    \E name \in Contexts :
        /\ output.switch.pc = "idle"
        /\ output' = [output EXCEPT !.switch = [pc |-> "clientset", to |-> name]]
        /\ UNCHANGED <<now, cache, limiter, streak, fpVars, input, gwVars>>

\* c.clientset = newClient.clientset
AssignClientset ==
    /\ output.switch.pc = "clientset"
    /\ output' = [output EXCEPT !.client.clientset = output.switch.to,
                                !.switch.pc = "config"]
    /\ UNCHANGED <<now, cache, limiter, streak, fpVars, input, gwVars>>

\* c.config = newClient.config
AssignConfig ==
    /\ output.switch.pc = "config"
    /\ output' = [output EXCEPT !.client.config = output.switch.to,
                                !.switch.pc = "currentContext"]
    /\ UNCHANGED <<now, cache, limiter, streak, fpVars, input, gwVars>>

\* c.currentContext = contextName; return nil
AssignCurrentContext ==
    /\ output.switch.pc = "currentContext"
    /\ output' = [output EXCEPT !.client.currentContext = output.switch.to,
                                !.switch = [pc |-> "idle", to |-> ""]]
    /\ UNCHANGED <<now, cache, limiter, streak, fpVars, input, gwVars>>

\* GetClusterInfo: c.clientset.Discovery().ServerVersion()
ReadVersion(p) ==
    /\ output.readers[p].pc = "version"
    /\ output' = [output EXCEPT !.readers[p] =
                      [@ EXCEPT !.pc = "nodes", !.version = output.client.clientset]]
    /\ UNCHANGED <<now, cache, limiter, streak, fpVars, input, gwVars>>

\* GetClusterInfo: c.clientset.CoreV1().Nodes().List(...)
ReadNodes(p) ==
    /\ output.readers[p].pc = "nodes"
    /\ output' = [output EXCEPT !.readers[p] =
                      [@ EXCEPT !.pc = "context", !.nodes = output.client.clientset]]
    /\ UNCHANGED <<now, cache, limiter, streak, fpVars, input, gwVars>>

\* GetClusterInfo: Context: c.currentContext, and return
ReadCurrentContext(p) ==
    /\ output.readers[p].pc = "context"
    /\ output' = [output EXCEPT !.readers[p] =
                      [@ EXCEPT !.pc = "done", !.context = output.client.currentContext]]
    /\ UNCHANGED <<now, cache, limiter, streak, fpVars, input, gwVars>>

InitSwitch ==
    /\ now = 0
    /\ cache = NewMemoryCache
    /\ limiter = NoRateLimiter
    /\ streak = NoStreak
    /\ fpReqs = <<>>
    /\ fpKeys = <<>>
    /\ input \in Contexts
    /\ output = [client |-> [clientset |-> input, config |-> input,
                             currentContext |-> input],
                 switch |-> [pc |-> "idle", to |-> ""],
                 readers |-> [p \in Readers |->
                                 [pc |-> "version", version |-> "", nodes |-> "",
                                  context |-> ""]]]
    /\ GatewayUnused

NextSwitch ==
    \/ SwitchContextStart
    \/ AssignClientset
    \/ AssignConfig
    \/ AssignCurrentContext
    \/ \E p \in Readers : ReadVersion(p) \/ ReadNodes(p) \/ ReadCurrentContext(p)

SpecSwitch == InitSwitch /\ [][NextSwitch]_vars

\* C35: a context switch replaces the live client state atomically: the
\* Client is never left with a clientset, config and currentContext of
\* different contexts, and no GetClusterInfo that ran beside SwitchContext
\* reports a context other than the one whose clientset it queried.
C35_SwitchIsAtomic ==
    /\ output.client.clientset = output.client.currentContext
    /\ output.client.config = output.client.currentContext
    /\ \A p \in Readers :
          output.readers[p].pc = "done" =>
              /\ output.readers[p].version = output.readers[p].context
              /\ output.readers[p].nodes = output.readers[p].context

\* a GetClusterInfo has returned the name of one context with the version and
\* the nodes of another
ReaderSawMix ==
    \E p \in Readers :
        /\ output.readers[p].pc = "done"
        /\ output.readers[p].version = output.readers[p].nodes
        /\ output.readers[p].version # output.readers[p].context

(***************************************************************************)
(* Specification of provider resolution: one call of GetForModel or of     *)
(* GetWithFallback on the registry built from any configuration of         *)
(* RegistryInputs.  "ghost" names a provider that is never configured.     *)
(***************************************************************************)
RegistryProviderConfigs ==
    {ProviderConfig("openai", {}, 0), ProviderConfig("openai", {"gpt-4"}, 0),
     ProviderConfig("anthropic", {}, 0), ProviderConfig("local", {}, 0)}

RegistryModelMappings ==
    {<<>>,
     [a \in {"fast"} |-> [provider |-> "openai", model |-> "gpt-3.5-turbo"]],
     [a \in {"gpt-4"} |-> [provider |-> "anthropic", model |-> "claude-3-opus"]],
     [a \in {"gpt-4"} |-> [provider |-> "ghost", model |-> "gpt-4"]]}

RegistryInputs ==
    [provs : UNION {[1..n -> RegistryProviderConfigs] : n \in 0..2},
     routing : {RoutingConfig(d, mm, ch) :
                  d \in {"", "openai", "anthropic", "ghost"},
                  mm \in RegistryModelMappings,
                  ch \in UNION {[1..n -> {"openai", "anthropic", "ghost"}] :
                                  n \in 0..MaxChain}},
     model : {"gpt-4", "fast", "claude-3-opus", "unknown-model-xyz"}]

\* the registry NewRegistry builds from the configuration drawn
InputRegistry == NewRegistry(input.provs, input.routing)

CallGetForModel ==
    /\ output = <<>>
    /\ output' = [op |-> "GetForModel",
                  result |-> GetForModel(InputRegistry, input.model)]
    /\ UNCHANGED <<now, cache, limiter, streak, fpVars, input, gwVars>>

CallGetWithFallback ==
    /\ output = <<>>
    /\ output' = [op |-> "GetWithFallback",
                  result |-> GetWithFallback(InputRegistry, input.model)]
    /\ UNCHANGED <<now, cache, limiter, streak, fpVars, input, gwVars>>

InitRegistry ==
    /\ now = 0
    /\ cache = NewMemoryCache
    /\ limiter = NoRateLimiter
    /\ streak = NoStreak
    /\ fpReqs = <<>>
    /\ fpKeys = <<>>
    /\ input \in RegistryInputs
    /\ output = <<>>
    /\ GatewayUnused

NextRegistry ==
    \/ CallGetForModel
    \/ CallGetWithFallback

SpecRegistry == InitRegistry /\ [][NextRegistry]_vars

\* C38: for a fixed registry GetForModel(model) returns the same provider on
\* every call: any two results the call can have are the same, also when the
\* model is in no mapping and two or more registered providers support it.
C38_ResolutionDeterministic ==
    (output # <<>> /\ output.op = "GetForModel") =>
        \A a, b \in output.result : a = b

\* the same for the models that the mapping resolves or that at most one
\* registered provider supports, which holds
ResolutionDeterministicElsewhere ==
    (/\ output # <<>>
     /\ output.op = "GetForModel"
     /\ \/ (input.model \in DOMAIN InputRegistry.modelMapping
             /\ InputRegistry.modelMapping[input.model] \in DOMAIN InputRegistry.providers)
        \/ Cardinality({n \in DOMAIN InputRegistry.providers :
                           SupportsModel(InputRegistry.providers[n], input.model)}) <= 1)
    => \A a, b \in output.result : a = b

\* the mapping table has the model and the provider it names is registered
Mapped ==
    /\ input.model \in DOMAIN InputRegistry.modelMapping
    /\ InputRegistry.modelMapping[input.model] \in DOMAIN InputRegistry.providers

\* the registered providers whose SupportsModel(model) is true
Supporting ==
    {n \in DOMAIN InputRegistry.providers :
        SupportsModel(InputRegistry.providers[n], input.model)}

DefaultRegistered ==
    /\ input.routing.defaultProvider # ""
    /\ input.routing.defaultProvider \in DOMAIN InputRegistry.providers

\* C19: GetForModel returns the provider the mapping table names when it is
\* registered; otherwise a provider that supports the model when there is
\* one; otherwise the default provider when it is registered; otherwise an
\* error.
C19_ResolutionOrder ==
    (output # <<>> /\ output.op = "GetForModel") =>
        /\ output.result # {}
        /\ \A res \in output.result :
              IF Mapped
              THEN res = [ok |-> TRUE,
                          provider |-> InputRegistry.modelMapping[input.model]]
              ELSE IF Supporting # {}
              THEN res.ok /\ res.provider \in Supporting
              ELSE IF DefaultRegistered
              THEN res = [ok |-> TRUE, provider |-> input.routing.defaultProvider]
              ELSE ~res.ok

\* C19 witness: the mapping table names an unregistered provider for the
\* model, a registered provider other than the default supports the model,
\* the default is registered, and GetForModel returned the supporting one.
C19_Witness ==
    /\ output # <<>> /\ output.op = "GetForModel"
    /\ input.model \in DOMAIN InputRegistry.modelMapping
    /\ ~Mapped
    /\ DefaultRegistered
    /\ Supporting # {}
    /\ input.routing.defaultProvider \notin Supporting
    /\ \E res \in output.result : res.ok /\ res.provider \in Supporting

\* the position of the first occurrence of the name in the chain
FirstIndex(chain, n) ==
    CHOOSE i \in DOMAIN chain : chain[i] = n /\ \A j \in 1..(i - 1) : chain[j] # n

\* C20: GetWithFallback returns registered providers only, none of them
\* twice; the mapped provider, when there is one, comes first; the others are
\* exactly the registered names of the fallback chain, in the order of their
\* first occurrence in the chain.
C20_MappedThenChain ==
    (output # <<>> /\ output.op = "GetWithFallback") =>
        LET res == output.result
            chain == input.routing.fallbackChain
            head == IF Mapped THEN {InputRegistry.modelMapping[input.model]} ELSE {}
            inChain == {chain[i] : i \in DOMAIN chain} \cap DOMAIN InputRegistry.providers
        IN  /\ \A i, j \in DOMAIN res : i # j => res[i] # res[j]
            /\ {res[i] : i \in DOMAIN res} = head \cup inChain
            /\ Mapped => res[1] = InputRegistry.modelMapping[input.model]
            /\ \A i, j \in DOMAIN res :
                  (i < j /\ res[i] \notin head /\ res[j] \notin head) =>
                      FirstIndex(chain, res[i]) < FirstIndex(chain, res[j])

\* C20 witness: the chain repeats a name and contains the mapped provider
\* after another registered one, and the result is the mapped provider
\* followed by that other one.
C20_Witness ==
    /\ output # <<>> /\ output.op = "GetWithFallback"
    /\ Mapped
    /\ Len(output.result) = 2
    /\ output.result[1] = InputRegistry.modelMapping[input.model]
    /\ \E i, j \in DOMAIN input.routing.fallbackChain :
          /\ i < j
          /\ input.routing.fallbackChain[i] = output.result[2]
          /\ input.routing.fallbackChain[j] = output.result[1]
    /\ \E i, j \in DOMAIN input.routing.fallbackChain :
          i # j /\ input.routing.fallbackChain[i] = input.routing.fallbackChain[j]

(***************************************************************************)
(* Specification of Registry.HealthCheckAll: one call on a registry of the *)
(* providers input.provs, whose HealthCheck results are input.health.  One *)
(* goroutine per provider runs p.HealthCheck and then assigns              *)
(* results[name]; the assignment to the shared map takes time (it begins   *)
(* and ends), and no lock is held around it.  Two assignments that overlap *)
(* are a data race on the map: the runtime may stop the process ("fatal    *)
(* error: concurrent map writes") or either assignment may be lost.        *)
(* output is the state of the call: where each goroutine is, the map, and  *)
(* what was returned.                                                      *)
(***************************************************************************)
HealthInputs ==
    UNION {[provs : {ps}, health : [ps -> {"ok", "unhealthy"}]] :
             ps \in (SUBSET {"openai", "anthropic", "local"}) \ {{}}}

\* the goroutine of provider n: p.HealthCheck(ctx) has returned and the
\* assignment results[name] = ... begins
HealthCheckDone(n) ==
    /\ output.pc[n] = "check"
    /\ output' = [output EXCEPT
                     !.pc[n] = "write",
                     !.raced = @ \cup (IF \E m \in input.provs : output.pc[m] = "write"
                                       THEN {n} \cup {m \in input.provs :
                                                        output.pc[m] = "write"}
                                       ELSE {})]
    /\ UNCHANGED <<now, cache, limiter, streak, fpVars, input, gwVars>>

\* the assignment results[name] = ... of the goroutine of provider n ends, and
\* the goroutine calls wg.Done()
MapAssigned(n) ==
    /\ output.pc[n] = "write"
    /\ ~output.crashed
    /\ \E outcome \in IF n \in output.raced THEN {"stored", "lost", "fatal"}
                       ELSE {"stored"} :
          output' = [output EXCEPT
                       !.pc[n] = IF outcome = "fatal" THEN @ ELSE "done",
                       !.crashed = (outcome = "fatal"),
                       !.results = IF outcome = "stored"
                                   THEN [m \in (DOMAIN @) \cup {n} |->
                                           IF m = n THEN input.health[n] ELSE @[m]]
                                   ELSE @]
    /\ UNCHANGED <<now, cache, limiter, streak, fpVars, input, gwVars>>

\* wg.Wait() returns once every goroutine has called wg.Done(); the map is
\* returned
HealthCheckAllReturn ==
    /\ output.ret = Nil
    /\ \A n \in input.provs : output.pc[n] = "done"
    /\ output' = [output EXCEPT !.ret = Some(output.results)]
    /\ UNCHANGED <<now, cache, limiter, streak, fpVars, input, gwVars>>

InitHealth ==
    /\ now = 0
    /\ cache = NewMemoryCache
    /\ limiter = NoRateLimiter
    /\ streak = NoStreak
    /\ fpReqs = <<>>
    /\ fpKeys = <<>>
    /\ input \in HealthInputs
    /\ output = [pc |-> [n \in input.provs |-> "check"], raced |-> {},
                 results |-> <<>>, crashed |-> FALSE, ret |-> Nil]
    /\ GatewayUnused

NextHealth ==
    \/ \E n \in input.provs : HealthCheckDone(n)
    \/ \E n \in input.provs : MapAssigned(n)
    \/ HealthCheckAllReturn

SpecHealth == InitHealth /\ [][NextHealth]_vars

\* C21: HealthCheckAll has returned only when every provider's HealthCheck
\* and its goroutine have finished, and the map returned has exactly one
\* entry per registered provider, holding that provider's result.
C21_JoinedCompleteMap ==
    output.ret # Nil =>
        /\ \A n \in input.provs : output.pc[n] = "done"
        /\ output.ret[1] = [n \in input.provs |-> input.health[n]]

\* C27: no two goroutines of HealthCheckAll are inside an assignment to the
\* shared results map at the same time.
C27_MapWritesExclusive ==
    \A n, m \in input.provs :
        (output.pc[n] = "write" /\ output.pc[m] = "write") => n = m

(***************************************************************************)
(* Specification of the metrics collector alone: RecordRequest calls with  *)
(* any token counts at any times, and GetStats calls; output lists every   *)
(* record ever passed to RecordRequest and input is the AggregatedStats    *)
(* the last GetStats returned, as it was when the call returned.           *)
(***************************************************************************)
\* a caller of GetStats keeps the AggregatedStats returned
StatsSnapshot ==
    /\ input # GetStats(metrics)
    /\ input' = GetStats(metrics)
    /\ UNCHANGED <<now, cache, limiter, streak, fpVars, output, gwVars>>

\* what the holder of an AggregatedStats reads in it while the collector is c:
\* the numbers were copied, ByProvider is the collector's own map
Observe(stats, c) == [stats EXCEPT !.byProvider = c.byProvider]

StatsRecord ==
    /\ Len(output) < MaxRecords
    /\ \E n \in 0..MaxTokens :
          LET m == ChatUsageRecord("openai", "gpt-4",
                       [promptTokens |-> n, completionTokens |-> 0, totalTokens |-> n],
                       now)
          IN  /\ metrics' = RecordRequest(metrics, m, now)
              /\ output' = Append(output, m)
    /\ UNCHANGED <<now, cache, limiter, streak, fpVars, input, cfg, healthy, reqs>>

InitStats ==
    /\ now = 0
    /\ cache = NewMemoryCache
    /\ limiter = NoRateLimiter
    /\ streak = NoStreak
    /\ fpReqs = <<>>
    /\ fpKeys = <<>>
    /\ input = <<>>
    /\ output = <<>>
    /\ GatewayUnused

NextStats ==
    \/ StatsRecord
    \/ StatsSnapshot
    \/ Tick

SpecStats == InitStats /\ [][NextStats]_vars

RECURSIVE SumTokens(_)
SumTokens(recs) ==
    IF recs = <<>> THEN 0 ELSE Head(recs).totalTokens + SumTokens(Tail(recs))

\* C22: at any time GetStats().TotalRequests is the number of recorded
\* requests whose timestamp lies within the last hour before that time, and
\* TotalTokens is the sum over all requests recorded since the start.
C22_RollingRequestsCumulativeTokens ==
    /\ GetStats(metrics).totalRequests =
          Len(SelectSeq(output, LAMBDA m : m.timestamp > now - Hour))
    /\ GetStats(metrics).totalTokens = SumTokens(output)

\* C28: the AggregatedStats GetStats returned is never observed changing: what
\* its holder reads in it stays what it was when GetStats returned, whatever
\* RecordRequest calls run afterwards.
C28_SnapshotStable == input # <<>> => Observe(input, metrics) = input

(***************************************************************************)
(* Specification of dispatch: handleChatCompletion resolves the provider   *)
(* of the request input with GetForModel and hands the request to that     *)
(* provider's client; output is the provider chosen and the body the       *)
(* client sends upstream.  The registry is the gateway's, with the alias   *)
(* "fast" -> {openai, gpt-3.5-turbo}.                                      *)
(***************************************************************************)
DispatchInputs ==
    {ChatCompletionRequest(m, <<Message("user", "hi")>>, Nil, Nil, st, mt, "", x) :
        m \in {"gpt-4", "fast", "claude-3-opus", "unknown-model-xyz"},
        st \in BOOLEAN, mt \in {Nil, Some(1)},
        x \in {Nil, Some(GatewayExtensions(Nil, "anthropic")),
               Some(GatewayExtensions(Nil, "openai")),
               Some(GatewayExtensions(Some(FALSE), "ghost"))}}

Dispatch ==
    /\ output = <<>>
    /\ \E g \in GetForModel(registry, input.model) :
          output' = IF g.ok
                    THEN [ok |-> TRUE, provider |-> g.provider,
                          body |-> UpstreamRequest(registry.providers[g.provider],
                                                   input, input.stream).body]
                    ELSE [ok |-> FALSE, provider |-> "", body |-> <<>>]
    /\ UNCHANGED <<now, cache, limiter, streak, fpVars, input, gwVars>>

InitDispatch ==
    /\ now = 0
    /\ cache = NewMemoryCache
    /\ limiter = NoRateLimiter
    /\ streak = NoStreak
    /\ fpReqs = <<>>
    /\ fpKeys = <<>>
    /\ input \in DispatchInputs
    /\ output = <<>>
    /\ cfg \in [cacheEnabled : {FALSE}, rateLimitEnabled : {FALSE},
                 defaultProvider : {"", "openai"}]
    /\ metrics = NewCollector
    /\ healthy = {}
    /\ reqs = <<>>

NextDispatch == Dispatch

SpecDispatch == InitDispatch /\ [][NextDispatch]_vars

\* C24: a request whose model is an alias of routing.modelMappings is
\* dispatched to the mapping's provider, and the body sent upstream carries
\* the mapping's model name, not the alias.
C24_AliasResolvedUpstream ==
    (output # <<>> /\ input.model \in DOMAIN GwModelMappings) =>
        /\ output.ok
        /\ output.provider = GwModelMappings[input.model].provider
        /\ output.body["model"] = GwModelMappings[input.model].model

\* C25: a request whose x-gateway.provider names a registered provider is
\* dispatched to that provider.
C25_ForcedProvider ==
    (/\ output # <<>>
     /\ input.xgateway # Nil
     /\ input.xgateway[1].provider \in DOMAIN registry.providers) =>
        /\ output.ok
        /\ output.provider = input.xgateway[1].provider

(***************************************************************************)
(* Specification of concurrent getLimiter calls: every caller of Callers   *)
(* calls getLimiter(input[p]) once, on a RateLimiter with an empty map;    *)
(* the steps of the callers interleave at the lock operations of rl.mu.    *)
(* A rate.Limiter is known by the number of its creation (a pointer);      *)
(* output is the state of the RateLimiter and of the calls: pc and the     *)
(* limiter returned per caller, the map, the holders of rl.mu, the number  *)
(* of limiters created, and the callers whose first lookup missed.         *)
(***************************************************************************)
Callers == {1, 2, 3}

\* rl.mu.RLock(): granted while no writer holds the lock
RLock(p) ==
    /\ output.pc[p] = "start"
    /\ output.writer = 0
    /\ output' = [output EXCEPT !.pc[p] = "rlocked", !.readers = @ \cup {p}]
    /\ UNCHANGED <<now, cache, limiter, streak, fpVars, input, gwVars>>

\* limiter, ok := rl.limiters[key]; rl.mu.RUnlock(); if ok { return limiter }
FirstLookup(p) ==
    /\ output.pc[p] = "rlocked"
    /\ output' = [output EXCEPT
                     !.readers = @ \ {p},
                     !.missed = IF input[p] \in DOMAIN output.limiters
                                THEN @ ELSE @ \cup {p},
                     !.pc[p] = IF input[p] \in DOMAIN output.limiters
                               THEN "returned" ELSE "missed",
                     !.got[p] = IF input[p] \in DOMAIN output.limiters
                                THEN output.limiters[input[p]] ELSE @]
    /\ UNCHANGED <<now, cache, limiter, streak, fpVars, input, gwVars>>

\* rl.mu.Lock(): granted while nobody holds the lock
Lock(p) ==
    /\ output.pc[p] = "missed"
    /\ output.writer = 0
    /\ output.readers = {}
    /\ output' = [output EXCEPT !.pc[p] = "locked", !.writer = p]
    /\ UNCHANGED <<now, cache, limiter, streak, fpVars, input, gwVars>>

\* a variant of SecondLookup without the check after acquiring the lock
SecondLookupCreatingAlways(st, p, key) ==
    [st EXCEPT !.created = @ + 1,
               !.limiters = [k \in (DOMAIN @) \cup {key} |->
                                IF k = key THEN st.created + 1 ELSE @[k]],
               !.got[p] = st.created + 1]

\* under the write lock: the limiter of the key when the map has one by now,
\* otherwise a new limiter stored under the key
SecondLookup(st, p, key) ==
    IF key \in DOMAIN st.limiters
    THEN [st EXCEPT !.got[p] = st.limiters[key]]
    ELSE [st EXCEPT !.created = @ + 1,
                    !.limiters = [k \in (DOMAIN @) \cup {key} |->
                                     IF k = key THEN st.created + 1 ELSE @[k]],
                    !.got[p] = st.created + 1]

\* the rest of getLimiter under the write lock, and the deferred Unlock
LockedLookup(p) ==
    /\ output.pc[p] = "locked"
    /\ output' = [SecondLookup(output, p, input[p]) EXCEPT
                     !.pc[p] = "returned", !.writer = 0]
    /\ UNCHANGED <<now, cache, limiter, streak, fpVars, input, gwVars>>

InitGetLimiter ==
    /\ now = 0
    /\ cache = NewMemoryCache
    /\ limiter = NoRateLimiter
    /\ streak = NoStreak
    /\ fpReqs = <<>>
    /\ fpKeys = <<>>
    /\ input \in [Callers -> LimitKeys]
    /\ output = [pc |-> [p \in Callers |-> "start"], got |-> [p \in Callers |-> 0],
                 limiters |-> <<>>, readers |-> {}, writer |-> 0, created |-> 0,
                 missed |-> {}]
    /\ GatewayUnused

NextGetLimiter ==
    \/ \E p \in Callers : RLock(p)
    \/ \E p \in Callers : FirstLookup(p)
    \/ \E p \in Callers : Lock(p)
    \/ \E p \in Callers : LockedLookup(p)

SpecGetLimiter == InitGetLimiter /\ [][NextGetLimiter]_vars

\* C26: however the concurrent getLimiter calls interleave, at most one
\* limiter is ever created per key, and every caller that has returned holds
\* the limiter stored under its key, the same one as every other caller of
\* that key.
C26_OneLimiterPerKey ==
    /\ output.created = Cardinality(DOMAIN output.limiters)
    /\ \A p \in Callers :
          output.pc[p] = "returned" =>
              /\ input[p] \in DOMAIN output.limiters
              /\ output.got[p] = output.limiters[input[p]]
    /\ \A p, q \in Callers :
          (/\ output.pc[p] = "returned" /\ output.pc[q] = "returned"
           /\ input[p] = input[q]) => output.got[p] = output.got[q]

\* C26 witness: three callers asked for the same unseen key, all three missed
\* in the first lookup, and all three returned the one limiter created.
C26_Witness ==
    /\ \A p \in Callers : input[p] = input[1] /\ output.pc[p] = "returned"
    /\ output.created = 1
    /\ \A p \in Callers : output.got[p] = 1
    /\ output.missed = Callers

\* C30: after a write to the caller has failed the relay reads no further
\* line from the upstream, and whenever the handler has returned the upstream
\* stream is closed.
C30_RelayStopsOnWriteFailure ==
    /\ output.readAfterFailure = 0
    /\ output.pc = "done" => output.closed

\* the closing half of C30 alone, which holds
RelayClosesUpstream == output.pc = "done" => output.closed

(***************************************************************************)
(* Specification of the cache key: generateCacheKey applied to any two     *)
(* requests of a bounded universe.                                         *)
(***************************************************************************)
FpMessages ==
    { <<Message("user", "hi")>>,
      <<Message("system", "be brief"), Message("user", "hi")>> }

FpRequests ==
    { ChatCompletionRequest(m, ms, t, tp, st, mt, u, x) :
        m \in {"gpt-4", "claude-3-opus"}, ms \in FpMessages,
        t \in {Nil, Some(5)}, tp \in {Nil, Some(9)}, st \in BOOLEAN,
        mt \in {Nil, Some(16)}, u \in {"", "alice"},
        x \in {Nil, Some(GatewayExtensions(Some(FALSE), "anthropic"))} }

\* the fields the spec calls output-affecting
SameKeyFields(a, b) ==
    /\ a.model = b.model
    /\ a.messages = b.messages
    /\ a.temperature = b.temperature
    /\ a.maxTokens = b.maxTokens

FpCompute ==
    /\ fpReqs # <<>>
    /\ fpKeys = <<>>
    /\ fpKeys' = <<generateCacheKey(fpReqs[1]), generateCacheKey(fpReqs[2])>>
    /\ UNCHANGED <<now, cache, limiter, streak, fpReqs, opVars, gwVars>>

InitKey ==
    /\ now = 0
    /\ cache = NewMemoryCache
    /\ limiter = NoRateLimiter
    /\ streak = NoStreak
    /\ fpReqs \in FpRequests \X FpRequests
    /\ fpKeys = <<>>
    /\ input = <<>>
    /\ output = <<>>
    /\ GatewayUnused

NextKey == FpCompute

SpecKey == InitKey /\ [][NextKey]_vars

\* C5: two requests equal in model, messages, temperature and maxTokens get the
\* same cache key, whatever their stream flag, user field or x-gateway extensions.
C5_KeyDependsOnFourFields ==
    (fpKeys # <<>> /\ SameKeyFields(fpReqs[1], fpReqs[2])) => fpKeys[1] = fpKeys[2]

\* C5 witness: keys were computed for two requests that agree on the four fields
\* and differ in stream, user and x-gateway.
C5_Witness ==
    /\ fpKeys # <<>>
    /\ SameKeyFields(fpReqs[1], fpReqs[2])
    /\ fpReqs[1].stream # fpReqs[2].stream
    /\ fpReqs[1].user # fpReqs[2].user
    /\ fpReqs[1].xgateway # fpReqs[2].xgateway
    /\ fpKeys[1] = fpKeys[2]

(***************************************************************************)
(* Specification of two requests and one cache entry: handleChatCompletion *)
(* serves input[1] and then input[2], at any times, with caching enabled   *)
(* and an upstream that answers request i with the bytes Bytes(i).  The    *)
(* requests carry the sampling fields of ChatCompletionRequest as well     *)
(* (n, stop, presencePenalty, frequencyPenalty).  output lists, for each   *)
(* request served, the response and the time it was served at.             *)
(***************************************************************************)
\* provider.ChatCompletionRequest with all its fields
SampledRequest(t, tp, n, stop, pp, fp) ==
    [model |-> "gpt-4", messages |-> <<Message("user", "hi")>>, temperature |-> t,
     topP |-> tp, n |-> n, stream |-> FALSE, stop |-> stop, maxTokens |-> Nil,
     presencePenalty |-> pp, frequencyPenalty |-> fp, user |-> "", xgateway |-> Nil]

SampledRequests ==
    { SampledRequest(t, tp, n, stop, pp, fp) :
        t \in {Nil, Some(5)}, tp \in {Nil, Some(9)}, n \in {Nil, Some(2)},
        stop \in {<<>>, <<"END">>}, pp \in {Nil, Some(1)}, fp \in {Nil, Some(1)} }

\* handleChatCompletion for the next request: the cache lookup, and on a miss
\* the provider call, the usage record and the cache write
ServeSampled ==
    /\ Len(output) < 2
    /\ LET i == Len(output) + 1
           req == input[i]
           got == IF CacheRead(req)
                  THEN Get(cache, generateCacheKey(req), now)
                  ELSE [cache |-> cache, value |-> <<>>, ok |-> FALSE]
       IN  /\ IF got.ok
              THEN /\ cache' = got.cache
                   /\ metrics' = RecordCacheHit(metrics)
                   /\ output' = Append(output, [resp |-> Response(200, "HIT", got.value),
                                                at |-> now])
              ELSE /\ cache' = IF cfg.cacheEnabled /\ CacheFlag(req)
                               THEN Set(got.cache, generateCacheKey(req), Bytes(i), now)
                               ELSE got.cache
                   /\ metrics' = RecordRequest(
                                     IF CacheRead(req) THEN RecordCacheMiss(metrics)
                                     ELSE metrics,
                                     ProviderMetrics("openai", req.model, TRUE, now), now)
                   /\ output' = Append(output, [resp |-> Response(200, "MISS", Bytes(i)),
                                                at |-> now])
    /\ UNCHANGED <<now, limiter, streak, fpVars, input, cfg, healthy, reqs>>

InitSampled ==
    /\ now = 0
    /\ cache = NewMemoryCache
    /\ limiter = NoRateLimiter
    /\ streak = NoStreak
    /\ fpReqs = <<>>
    /\ fpKeys = <<>>
    /\ input \in SampledRequests \X SampledRequests
    /\ output = <<>>
    /\ cfg = [cacheEnabled |-> TRUE, rateLimitEnabled |-> FALSE, defaultProvider |-> ""]
    /\ metrics = NewCollector
    /\ healthy = {}
    /\ reqs = <<>>

NextSampled ==
    \/ ServeSampled
    \/ Tick

SpecSampled == InitSampled /\ [][NextSampled]_vars

\* the two requests differ in every sampling field that is not part of the key
DifferInSampling ==
    /\ input[1].topP # input[2].topP
    /\ input[1].n # input[2].n
    /\ input[1].stop # input[2].stop
    /\ input[1].presencePenalty # input[2].presencePenalty
    /\ input[1].frequencyPenalty # input[2].frequencyPenalty

\* C40: two non-streaming requests that agree on model, messages, temperature
\* and maxTokens get the same cache key whatever their topP, stop, n and
\* penalties, and with caching enabled the second one, served within the TTL
\* of the first one's entry, is answered HIT with the first one's response.
C40_SamplingFieldsShareEntry ==
    SameKeyFields(input[1], input[2]) =>
        /\ generateCacheKey(input[1]) = generateCacheKey(input[2])
        /\ (Len(output) = 2 /\ output[2].at <= output[1].at + TTL) =>
              output[2].resp = Response(200, "HIT", output[1].resp.body)

\* C40 witness: the second request differs from the first in topP, n, stop and
\* both penalties, was served one tick after it, and got the first one's bytes.
C40_Witness ==
    /\ Len(output) = 2
    /\ SameKeyFields(input[1], input[2])
    /\ DifferInSampling
    /\ output[1].resp.xcache = "MISS"
    /\ output[2].at > output[1].at
    /\ output[2].resp.xcache = "HIT"
    /\ output[2].resp.body = Bytes(1)

(***************************************************************************)
(* Specification of the gateway: the requests of Slots arrive in any       *)
(* interleaving, under every configuration of GwConfigs.                   *)
(***************************************************************************)
Init ==
    /\ now = 0
    /\ cache = NewMemoryCache
    /\ limiter = NewRateLimiter(GwRateLimitConfig, 0)
    /\ streak = NoStreak
    /\ fpReqs = <<>>
    /\ fpKeys = <<>>
    /\ input = <<>>
    /\ output = <<>>
    /\ cfg \in GwConfigs
    /\ metrics = NewCollector
    /\ healthy = {"anthropic"}
    /\ reqs = [r \in Slots |-> IdleSlot]

Next ==
    \/ \E r \in Slots : RateLimit(r)
    \/ \E r \in Slots : handleHealth(r)
    \/ \E r \in Slots : handleCacheClear(r)
    \/ \E r \in Slots : handleChatCompletion(r)
    \/ \E r \in Slots : CompleteChat(r)
    \/ \E r \in Slots : CompleteStream(r)
    \/ GwCleanup
    \/ Tick

Spec == Init /\ [][Next]_vars

\* C1: after any sequence of Set, Get, Delete and Clear calls the sum of the
\* byte lengths of all stored values is at most maxSize.
C1_CacheBound == currentSize(cache) <= MaxSize

\* C1 is violated where a Set has overwritten an existing key with a longer
\* value, or has stored a value longer than maxSize in an empty cache.

(***************************************************************************)
(* Claims about the gateway specification                                  *)
(***************************************************************************)
\* the slot r holds a chat-completion request that passed the rate limiter and
\* whose body decoded
ChatRequest(r) ==
    /\ reqs[r].path = "chat"
    /\ reqs[r].admitted
    /\ reqs[r].body # Nil

\* C2: every admitted non-streaming chat-completion request that ran to
\* completion through a provider call caused exactly one RecordRequest, whether
\* the call succeeded or failed.
C2_ExactlyOneUsageRecord ==
    \A r \in Slots :
        (/\ ChatRequest(r)
         /\ reqs[r].pc = "done"
         /\ ~reqs[r].body[1].stream
         /\ reqs[r].called # <<>>) => reqs[r].recorded = 1

\* no alias of routing.modelMappings maps the model and no configured provider
\* lists or supports it
Unresolvable(model) ==
    /\ model \notin DOMAIN GwModelMappings
    /\ \A i \in DOMAIN GwProviders : ~SupportsModel(createProvider(GwProviders[i]), model)

\* routing.defaultProvider is empty or names no registered provider
NoDefaultProvider ==
    \A i \in DOMAIN GwProviders : GwProviders[i].name # cfg.defaultProvider

\* the request of slot r was answered 400 "model not found", no provider was
\* called for it and no usage record was written for it
AnsweredNotFound(r) ==
    /\ reqs[r].pc = "done"
    /\ reqs[r].resp.status = 400
    /\ reqs[r].resp.errType = "model not found"
    /\ reqs[r].called = <<>>
    /\ reqs[r].recorded = 0

\* C3 as stated: a chat-completion request for a model that no alias maps and
\* no provider supports is answered 400 with a not-found error, no provider is
\* called and no usage record is written.
C3_UnknownModelIsNotFound ==
    \A r \in Slots :
        (/\ ChatRequest(r)
         /\ reqs[r].pc \in {"dispatch", "done"}
         /\ Unresolvable(reqs[r].body[1].model)) => AnsweredNotFound(r)

\* C3 amended: the same holds when routing.defaultProvider names no registered
\* provider; when it names one, the request goes to that provider.
C3_UnknownModelWithoutDefaultIsNotFound ==
    \A r \in Slots :
        (/\ ChatRequest(r)
         /\ reqs[r].pc \in {"dispatch", "done"}
         /\ Unresolvable(reqs[r].body[1].model)) =>
            IF NoDefaultProvider
            THEN AnsweredNotFound(r)
            ELSE reqs[r].prov = cfg.defaultProvider

\* C3 witness: with no default provider, a request for an unresolvable model
\* was answered 400 "model not found".
C3_Witness ==
    \E r \in Slots :
        /\ ChatRequest(r)
        /\ Unresolvable(reqs[r].body[1].model)
        /\ NoDefaultProvider
        /\ AnsweredNotFound(r)

\* the request of slot r takes part in caching: non-streaming, the cache is
\* enabled and the request's x-gateway.cache flag does not switch it off
Cacheable(r) ==
    /\ ChatRequest(r)
    /\ ~reqs[r].body[1].stream
    /\ cfg.cacheEnabled
    /\ CacheFlag(reqs[r].body[1])

KeyOf(r) == generateCacheKey(reqs[r].body[1])

\* C4: a cacheable request answered by a successful provider call carries
\* X-Cache: MISS and leaves its response in the cache for TTL; when the same
\* request is handled again while that entry is in the cache and within its
\* TTL, it is answered X-Cache: HIT with the first response's bytes, and no
\* provider is called for it.
C4_MissThenHit ==
    [][\A r \in Slots :
          /\ (/\ Cacheable(r)
              /\ reqs[r].pc = "dispatch"
              /\ reqs'[r].pc = "done"
              /\ reqs'[r].resp.status = 200) =>
                 /\ reqs'[r].resp.xcache = "MISS"
                 /\ KeyOf(r) \in DOMAIN cache'.items
                 /\ cache'.items[KeyOf(r)] =
                        [value |-> reqs'[r].resp.body, expiresAt |-> now + TTL]
          /\ \A p \in Slots \ {r} :
                (/\ Cacheable(r)
                 /\ reqs[r].pc = "routed"
                 /\ reqs'[r].pc # "routed"
                 /\ reqs[p].pc = "done"
                 /\ reqs[p].body = reqs[r].body
                 /\ reqs[p].resp.xcache = "MISS"
                 /\ KeyOf(r) \in DOMAIN cache.items
                 /\ cache.items[KeyOf(r)].value = reqs[p].resp.body
                 /\ now <= cache.items[KeyOf(r)].expiresAt) =>
                    /\ reqs'[r].pc = "done"
                    /\ reqs'[r].resp = Response(200, "HIT", reqs[p].resp.body)
                    /\ reqs'[r].called = <<>>
                    /\ reqs'[r].recorded = 0]_vars

\* C4 witness: a request was answered MISS from a provider and the same
\* request, handled afterwards within the TTL, was answered HIT with the same
\* bytes and without a provider call.
C4_Witness ==
    \E p, r \in Slots :
        /\ p # r
        /\ Cacheable(p) /\ Cacheable(r)
        /\ reqs[p].body = reqs[r].body
        /\ reqs[p].pc = "done" /\ reqs[p].resp.xcache = "MISS"
        /\ reqs[p].called # <<>>
        /\ reqs[r].pc = "done" /\ reqs[r].resp.xcache = "HIT"
        /\ reqs[r].resp.body = reqs[p].resp.body
        /\ reqs[r].called = <<>>
        /\ now > 0

\* the step is one of the handler of slot r, and the request it handles is a
\* chat-completion request whose body decoded
ChatStep(r) ==
    /\ reqs'[r] # reqs[r]
    /\ reqs'[r].path = "chat"
    /\ reqs'[r].body # Nil

\* C14: no step of the handler of a streaming request reads or writes the
\* cache (its entries, its LRU order and the hit and miss counters stay as they
\* are), and a streaming request is never answered from the cache.
C14_StreamingBypassesCache ==
    [][\A r \in Slots :
          (ChatStep(r) /\ reqs'[r].body[1].stream) =>
              /\ cache' = cache
              /\ metrics'.cacheHits = metrics.cacheHits
              /\ metrics'.cacheMisses = metrics.cacheMisses
              /\ reqs'[r].resp.xcache # "HIT"]_vars

\* C14 witness: with the cache enabled, a streaming request was relayed from
\* its provider while the cache held an unexpired entry under the request's
\* own cache key, stored for a non-streaming request.
C14_Witness ==
    \E p, r \in Slots :
        /\ cfg.cacheEnabled
        /\ reqs[p].pc = "done" /\ ChatRequest(p) /\ ~reqs[p].body[1].stream
        /\ reqs[p].resp.xcache = "MISS"
        /\ reqs[r].pc = "done" /\ ChatRequest(r) /\ reqs[r].body[1].stream
        /\ reqs[r].resp.status = 200
        /\ reqs[r].called # <<>>
        /\ KeyOf(r) = KeyOf(p)
        /\ KeyOf(r) \in DOMAIN cache.items
        /\ now <= cache.items[KeyOf(r)].expiresAt

\* the request carries x-gateway.cache = false
CacheOptOut(req) ==
    /\ req.xgateway # Nil
    /\ req.xgateway[1].cache = Some(FALSE)

\* the request carries no x-gateway object, one without a cache field, or
\* x-gateway.cache = true
CacheOptIn(req) ==
    \/ req.xgateway = Nil
    \/ req.xgateway # Nil /\ req.xgateway[1].cache \in {Nil, Some(TRUE)}

\* C15: no step of the handler of a request with x-gateway.cache = false reads
\* or writes the cache, and such a request is never answered from it; a
\* non-streaming request with the flag absent or true, the cache being
\* enabled, is looked up (answered HIT from an unexpired entry under its key,
\* counted as a miss otherwise) and its successful response is stored under
\* its key.
C15_CacheFlagHonoured ==
    [][\A r \in Slots :
          /\ (ChatStep(r) /\ CacheOptOut(reqs'[r].body[1])) =>
                 /\ cache' = cache
                 /\ metrics'.cacheHits = metrics.cacheHits
                 /\ metrics'.cacheMisses = metrics.cacheMisses
                 /\ reqs'[r].resp.xcache # "HIT"
          /\ (/\ ChatStep(r)
              /\ CacheOptIn(reqs'[r].body[1])
              /\ ~reqs'[r].body[1].stream
              /\ cfg.cacheEnabled
              /\ reqs[r].pc = "routed"
              /\ reqs'[r].resp.errType = "") =>
                 IF /\ KeyOf(r) \in DOMAIN cache.items
                    /\ now <= cache.items[KeyOf(r)].expiresAt
                 THEN /\ reqs'[r].pc = "done"
                      /\ reqs'[r].resp =
                             Response(200, "HIT", cache.items[KeyOf(r)].value)
                      /\ metrics'.cacheHits = metrics.cacheHits + 1
                 ELSE /\ reqs'[r].pc = "dispatch"
                      /\ metrics'.cacheMisses = metrics.cacheMisses + 1
          /\ (/\ ChatStep(r)
              /\ CacheOptIn(reqs'[r].body[1])
              /\ ~reqs'[r].body[1].stream
              /\ cfg.cacheEnabled
              /\ reqs[r].pc = "dispatch"
              /\ reqs'[r].resp.status = 200) =>
                 /\ KeyOf(r) \in DOMAIN cache'.items
                 /\ cache'.items[KeyOf(r)].value = reqs'[r].resp.body]_vars

\* C15 witness: a request with x-gateway.cache = true stored its response, and
\* a request with x-gateway.cache = false and the same cache key was then
\* answered by its provider while that entry was in the cache and unexpired.
C15_Witness ==
    \E p, r \in Slots :
        /\ cfg.cacheEnabled
        /\ reqs[p].pc = "done" /\ ChatRequest(p)
        /\ reqs[p].body[1].xgateway # Nil
        /\ reqs[p].body[1].xgateway[1].cache = Some(TRUE)
        /\ reqs[p].resp.xcache = "MISS"
        /\ reqs[r].pc = "done" /\ ChatRequest(r) /\ CacheOptOut(reqs[r].body[1])
        /\ reqs[r].resp.status = 200
        /\ reqs[r].resp.xcache = "MISS"
        /\ reqs[r].called # <<>>
        /\ KeyOf(r) = KeyOf(p)
        /\ KeyOf(r) \in DOMAIN cache.items
        /\ cache.items[KeyOf(r)].value = reqs[p].resp.body
        /\ now <= cache.items[KeyOf(r)].expiresAt

\* C23: a request the rate limiter denied is answered 429 with a Retry-After
\* header and the rate_limit_error body in the very step that denies it, which
\* reads and changes neither the cache nor the metrics; no provider is
\* resolved or called and no usage is recorded for it, and no handler runs
\* for it afterwards.
C23_DeniedNeverDispatched ==
    [][\A r \in Slots :
          (reqs'[r] # reqs[r] /\ ~reqs'[r].admitted) =>
              /\ reqs[r].pc = "idle"
              /\ reqs'[r].pc = "done"
              /\ reqs'[r].resp.status = 429
              /\ reqs'[r].resp.retryAfter # ""
              /\ reqs'[r].resp.errType = "rate_limit_error"
              /\ reqs'[r].prov = ""
              /\ reqs'[r].called = <<>>
              /\ reqs'[r].recorded = 0
              /\ cache' = cache
              /\ metrics' = metrics]_vars

\* C23 witness: a chat-completion request was denied while the cache held an
\* unexpired entry under its key, stored for the same request admitted before.
C23_Witness ==
    \E p, r \in Slots :
        /\ cfg.cacheEnabled
        /\ ChatRequest(p) /\ reqs[p].pc = "done" /\ reqs[p].resp.xcache = "MISS"
        /\ reqs[r].pc = "done" /\ ~reqs[r].admitted
        /\ reqs[r].path = "chat" /\ reqs[r].body = reqs[p].body
        /\ reqs[r].resp = RateLimitExceeded
        /\ KeyOf(r) \in DOMAIN cache.items
        /\ now <= cache.items[KeyOf(r)].expiresAt
        /\ metrics.cacheHits = 0

\* the providers GetWithFallback lists for the request of slot r after the one
\* the request was dispatched to
NextFallback(r) ==
    SelectSeq(GetWithFallback(registry, reqs[r].body[1].model),
              LAMBDA n : n # reqs[r].prov)

\* the provider call made for the request of slot r failed
ProviderFailed(r) ==
    /\ ChatRequest(r)
    /\ reqs[r].pc = "done"
    /\ reqs[r].called # <<>>
    /\ reqs[r].resp.errType # ""

\* C6: a request whose first provider fails and whose next provider of the
\* fallback chain succeeds is answered successfully.
C6_FallbackOnFailure ==
    \A r \in Slots :
        (/\ ChatRequest(r)
         /\ reqs[r].pc = "done"
         /\ reqs[r].called # <<>>
         /\ reqs[r].called[1] \notin healthy
         /\ reqs[r].upstream # 200
         /\ NextFallback(r) # <<>>
         /\ NextFallback(r)[1] \in healthy) => reqs[r].resp.status = 200

C8_HealthAlways200 ==
    \A r \in Slots :
        (reqs[r].pc = "done" /\ reqs[r].path = "health") => reqs[r].resp.status = 200

\* C9: when a provider call failed and the upstream's last response reported
\* an error status s, the caller receives status s; this includes 429 and 5xx
\* statuses left after the retries are used up.
C9_UpstreamStatusSurfaced ==
    \A r \in Slots :
        (ProviderFailed(r) /\ reqs[r].upstream >= 400) =>
            reqs[r].resp.status = reqs[r].upstream
=============================================================================
